---- MODULE Spec2Model ----
(***************************************************************************)
(* Model of the SkillBridge AI service (src/ai_service/main.py).           *)
(*                                                                         *)
(* The /roadmap handler is an async function without any await: it runs    *)
(* from its first line to its return (or to the exception it raises) as    *)
(* one step.  A request is one value of RoadmapRequest; the response is    *)
(* either the returned {"roadmap": weeks} or the failure of the handler.   *)
(*                                                                         *)
(* Python values of unknown type (the values of the free-form dicts        *)
(* preferences and interview, the entries of lists) are tagged records     *)
(* with the same four fields, so that any two of them can be compared.     *)
(* Python strings are TLA+ strings; lower(), strip(), "in" and join are    *)
(* computed character by character.                                        *)
(***************************************************************************)
EXTENDS Integers, Sequences, FiniteSets, TLC

VARIABLES req, resp, prioritized, pc, calls, weeksOf, prioOf

vars == <<req, resp, prioritized, pc, calls, weeksOf, prioOf>>

(***************************************************************************)
(* Bounds of the explored inputs.                                          *)
(***************************************************************************)
MaxMissing == 2

\* the number of invocations in flight together
MaxCalls == 3

(***************************************************************************)
(* Python strings.                                                         *)
(*                                                                         *)
(* A string constant holds a Python string as its UTF-16 units: a          *)
(* character of U+0001..U+FFFF is one unit, a character above U+FFFF two,  *)
(* a high half followed by a low half.  Len, SubSeq and \o work on units;  *)
(* Chars gives the characters, and what the code does character by         *)
(* character (iterating a string, len()) goes through it.  A string        *)
(* constant can hold U+0001..U+007F without the grave accent; the          *)
(* characters of U+0080..U+FFFF whose code point ends in a byte of 80..FF  *)
(* (all of U+0080..U+00FF among them); and the characters above U+FFFF     *)
(* whose two halves both end in a byte of 80..FF (U+30080 is the first).   *)
(* The tables of this section are those of str.lower(), str.strip() and    *)
(* int() (Unicode 14.0) for these characters.  None of the characters      *)
(* above U+FFFF among them is white space, a digit, cased, case-ignorable  *)
(* or changed by str.lower().                                              *)
(*                                                                         *)
(* str.lower() leaves this alphabet: 93 upper-case letters (U+0181,        *)
(* U+0186, U+0189, U+018A, U+018F, U+0190, U+0193, U+0194, U+0196, U+0197, *)
(* U+019C, U+019D, U+019F, U+03FD..U+03FF, U+10A0..U+10C5, U+10C7, U+10CD, *)
(* U+13A0..U+13AF, U+1FBA, U+1FBB, U+1FC8..U+1FCB, U+1FDA, U+1FDB, U+1FEA, *)
(* U+1FEB, U+1FF8..U+1FFB, U+A78D, U+A7AA..U+A7AE, U+A7B3) have a          *)
(* lower-case letter that no string constant holds.  Lower(s) is therefore *)
(* list(s.lower()), the characters of the lowered string one by one: a     *)
(* character is the string constant that holds it, and the lower-case      *)
(* letter of one of the 93 is the name of its code point ("U+0253" for the *)
(* lower-case letter of U+0181).  A name has six units and a character one *)
(* or two, so no two characters are written alike.  What the code compares *)
(* with a lowered string is a lowered string or a literal; the literal is  *)
(* given as Chars("literal").                                              *)
(*                                                                         *)
(* TLC keeps up to 8192 unexplored states in memory and writes a longer    *)
(* queue to disk with one byte per character.  The specifications whose    *)
(* requests hold characters above U+007F therefore have fewer than 8192    *)
(* states on every level of the search (UnmatchedSpec, ScoreSpec,          *)
(* ConcSpec, ResourceSpec, FocusSpec, WeakSpec, GapSpec,                   *)
(* InterviewScoreSpec); the requests of Spec, EdgeSpec and QuestionSpec    *)
(* are ASCII.                                                              *)
(***************************************************************************)
\* the unit of s at position i
UnitAt(s, i) == SubSeq(s, i, i)

\* 512 characters above U+FFFF: every high half and every low half that a
\* string constant holds occurs in them
SurrogatePairs ==
  "𰂁𰒂𰢃𰲄𱂅𱒆𱢇𱲈𲂉𲒊𲢋𲲌𳂍𳒎𳢏𳲐𴂑𴒒𴢓𴲔𵂕𵒖𵢗𵲘𶂙𶒚𶢛𶲜𷂝𷒞𷢟𷲠"
  \o "𸂡𸒢𸢣𸲤𹂥𹒦𹢧𹲨𺂩𺒪𺢫𺲬𻂭𻒮𻢯𻲰𼂱𼒲𼢳𼲴𽂵𽒶𽢷𽲸𾂹𾒺𾢻𾲼𿂽𿒾𿢿𿳀"
  \o "񀃁񀓂񀣃񀳄񁃅񁓆񁣇񁳈񂃉񂓊񂣋񂳌񃃍񃓎񃣏񃳐񄃑񄓒񄣓񄳔񅃕񅓖񅣗񅳘񆃙񆓚񆣛񆳜񇃝񇓞񇣟񇳠"
  \o "񈃡񈓢񈣣񈳤񉃥񉓦񉣧񉳨񊃩񊓪񊣫񊳬񋃭񋓮񋣯񋳰񌃱񌓲񌣳񌳴񍃵񍓶񍣷񍳸񎃹񎓺񎣻񎳼񏃽񏓾񏣿񏶀"
  \o "񰆁񰖂񰦃񰶄񱆅񱖆񱦇񱶈񲆉񲖊񲦋񲶌񳆍񳖎񳦏񳶐񴆑񴖒񴦓񴶔񵆕񵖖񵦗񵶘񶆙񶖚񶦛񶶜񷆝񷖞񷦟񷶠"
  \o "񸆡񸖢񸦣񸶤񹆥񹖦񹦧񹶨񺆩񺖪񺦫񺶬񻆭񻖮񻦯񻶰񼆱񼖲񼦳񼶴񽆵񽖶񽦷񽶸񾆹񾖺񾦻񾶼񿆽񿖾񿦿񿷀"
  \o "򀇁򀗂򀧃򀷄򁇅򁗆򁧇򁷈򂇉򂗊򂧋򂷌򃇍򃗎򃧏򃷐򄇑򄗒򄧓򄷔򅇕򅗖򅧗򅷘򆇙򆗚򆧛򆷜򇇝򇗞򇧟򇷠"
  \o "򈇡򈗢򈧣򈷤򉇥򉗦򉧧򉷨򊇩򊗪򊧫򊷬򋇭򋗮򋧯򋷰򌇱򌗲򌧳򌷴򍇵򍗶򍧷򍷸򎇹򎗺򎧻򎷼򏇽򏗾򏧿򏺀"
  \o "򰊁򰚂򰪃򰺄򱊅򱚆򱪇򱺈򲊉򲚊򲪋򲺌򳊍򳚎򳪏򳺐򴊑򴚒򴪓򴺔򵊕򵚖򵪗򵺘򶊙򶚚򶪛򶺜򷊝򷚞򷪟򷺠"
  \o "򸊡򸚢򸪣򸺤򹊥򹚦򹪧򹺨򺊩򺚪򺪫򺺬򻊭򻚮򻪯򻺰򼊱򼚲򼪳򼺴򽊵򽚶򽪷򽺸򾊹򾚺򾪻򾺼򿊽򿚾򿪿򿻀"
  \o "󀋁󀛂󀫃󀻄󁋅󁛆󁫇󁻈󂋉󂛊󂫋󂻌󃋍󃛎󃫏󃻐󄋑󄛒󄫓󄻔󅋕󅛖󅫗󅻘󆋙󆛚󆫛󆻜󇋝󇛞󇫟󇻠"
  \o "󈋡󈛢󈫣󈻤󉋥󉛦󉫧󉻨󊋩󊛪󊫫󊻬󋋭󋛮󋫯󋻰󌋱󌛲󌫳󌻴󍋵󍛶󍫷󍻸󎋹󎛺󎫻󎻼󏋽󏛾󏫿󏾀"
  \o "󰎁󰞂󰮃󰾄󱎅󱞆󱮇󱾈󲎉󲞊󲮋󲾌󳎍󳞎󳮏󳾐󴎑󴞒󴮓󴾔󵎕󵞖󵮗󵾘󶎙󶞚󶮛󶾜󷎝󷞞󷮟󷾠"
  \o "󸎡󸞢󸮣󸾤󹎥󹞦󹮧󹾨󺎩󺞪󺮫󺾬󻎭󻞮󻮯󻾰󼎱󼞲󼮳󼾴󽎵󽞶󽮷󽾸󾎹󾞺󾮻󾾼󿎽󿞾󿮿󿿀"
  \o "􀏁􀟂􀯃􀿄􁏅􁟆􁯇􁿈􂏉􂟊􂯋􂿌􃏍􃟎􃯏􃿐􄏑􄟒􄯓􄿔􅏕􅟖􅯗􅿘􆏙􆟚􆯛􆿜􇏝􇟞􇯟􇿠"
  \o "􈏡􈟢􈯣􈿤􉏥􉟦􉯧􉿨􊏩􊟪􊯫􊿬􋏭􋟮􋯯􋿰􌏱􌟲􌯳􌿴􍏵􍟶􍯷􍿸􎏹􎟺􎯻􎿼􏏽􏟾􏯿􏲀"

HighSet == {UnitAt(SurrogatePairs, 2 * k - 1) : k \in 1..(Len(SurrogatePairs) \div 2)}

LowSet == {UnitAt(SurrogatePairs, 2 * k) : k \in 1..(Len(SurrogatePairs) \div 2)}

\* the unit of s at i is the second unit of a character
Continues(s, i) == i > 1 /\ UnitAt(s, i) \in LowSet /\ UnitAt(s, i - 1) \in HighSet

RECURSIVE CharsRange(_, _, _)
\* the characters of s that begin at the units a..b; the two halves of the
\* range are taken separately, which keeps the recursion shallow on a long
\* text
CharsRange(s, a, b) ==
  IF a > b THEN <<>>
  ELSE IF a = b
  THEN (IF Continues(s, a) THEN <<>>
        ELSE IF a < Len(s) /\ Continues(s, a + 1) THEN <<SubSeq(s, a, a + 1)>>
        ELSE <<UnitAt(s, a)>>)
  ELSE CharsRange(s, a, (a + b) \div 2) \o CharsRange(s, (a + b) \div 2 + 1, b)

\* list(s): the characters of s
Chars(s) == CharsRange(s, 1, Len(s))

\* the letters str.lower() changes, in the order of their code points
\* (Unicode 14.0), without the capital sigma
UpperLetters ==
  "ABCDEFGHIJKLMNOPQRSTUVWXYZÀÁÂÃÄÅÆÇÈÉÊËÌÍÎÏÐÑÒÓÔÕÖØÙÚÛÜÝÞƁƂƄƆ"
  \o "ƇƉƊƋƎƏƐƑƓƔƖƗƘƜƝƟƠƢƤƦƧƩƬƮƯƱƲƳƵƷƸƼǄǅǇǈǊǋǍǏǑǓǕǗǙǛǞǠǢǤǦǨǪǬǮǱǲǴǶǷ"
  \o "ǸǺǼǾΆΈΉΊΌΎΏΑΒΓΔΕΖΗΘΙΚΛΜΝΞΟΠΡΤΥΦΧΨΩΪΫϏϘϚϜϞϠϢϤϦϨϪϬϮϴϷϹϺϽϾϿҀҊҌҎ"
  \o "ҐҒҔҖҘҚҜҞҠҢҤҦҨҪҬҮҰҲҴҶҸҺҼҾӀӁӃӅӇӉӋӍӐӒӔӖӘӚӜӞӠӢӤӦӨӪӬӮӰӲӴӶӸӺӼӾႠႡႢႣ"
  \o "ႤႥႦႧႨႩႪႫႬႭႮႯႰႱႲႳႴႵႶႷႸႹႺႻႼႽႾႿჀჁჂჃჄჅჇჍᎠᎡᎢᎣᎤᎥᎦᎧᎨᎩᎪᎫᎬᎭᎮᎯᎰᎱᎲᎳᎴᎵᎶᎷ"
  \o "ᎸᎹᎺᎻᎼᎽᎾᎿᏀᏁᏂᏃᏄᏅᏆᏇᏈᏉᏊᏋᏌᏍᏎᏏᏐᏑᏒᏓᏔᏕᏖᏗᏘᏙᏚᏛᏜᏝᏞᏟᏠᏡᏢᏣᏤᏥᏦᏧᏨᏩᏪᏫᏬᏭᏮᏯᏰᏱᏲᏳ"
  \o "ᏴᏵᲐᲑᲒᲓᲔᲕᲖᲗᲘᲙᲚᲛᲜᲝᲞᲟᲠᲡᲢᲣᲤᲥᲦᲧᲨᲩᲪᲫᲬᲭᲮᲯᲰᲱᲲᲳᲴᲵᲶᲷᲸᲹᲺᲽᲾᲿẀẂẄẆẈẊẌẎẐẒẔẞ"
  \o "ẠẢẤẦẨẪẬẮẰẲẴẶẸẺẼẾỀỂỄỆỈỊỌỎỐỒỔỖỘỚỜỞỠỢỤỦỨỪỬỮỰỲỴỶỸỺỼỾᾈᾉᾊᾋᾌᾍᾎᾏᾘᾙᾚᾛ"
  \o "ᾜᾝᾞᾟᾨᾩᾪᾫᾬᾭᾮᾯᾸᾹᾺΆᾼῈΈῊΉῌῘῙῚΊῨῩῪΎῬῸΌῺΏῼↃⒶⒷⒸⒹⒺⒻⒼⒽⒾⒿⓀⓁⓂⓃⓄⓅⓆⓇⓈⓉⓊⓋⓌ"
  \o "ⓍⓎⓏⲀⲂⲄⲆⲈⲊⲌⲎⲐⲒⲔⲖⲘⲚⲜⲞⲠⲢⲤⲦⲨⲪⲬⲮⲰⲲⲴⲶⲸⲺⲼⲾⳀⳂⳄⳆⳈⳊⳌⳎⳐⳒⳔⳖⳘⳚⳜⳞⳠⳢⳫⳭⳲꚀꚂꚄꚆ"
  \o "ꚈꚊꚌꚎꚐꚒꚔꚖꚘꚚꞀꞂꞄꞆꞋꞍꞐꞒꞖꞘꞚꞜꞞꞠꞢꞤꞦꞨꞪꞫꞬꞭꞮꞰꞱꞲꞳꞴꞶꞸꞺꞼꞾꟀꟂꟄꟅꟆꟇꟉꟐꟖꟘꟵ"

\* the lower-case letter of each of them, in the same order
LowerLetters ==
  <<"a", "b", "c", "d", "e", "f", "g", "h", "i", "j", "k", "l",
    "m", "n", "o", "p", "q", "r", "s", "t", "u", "v", "w", "x",
    "y", "z", "à", "á", "â", "ã", "ä", "å", "æ", "ç", "è", "é",
    "ê", "ë", "ì", "í", "î", "ï", "ð", "ñ", "ò", "ó", "ô", "õ",
    "ö", "ø", "ù", "ú", "û", "ü", "ý", "þ", "U+0253", "ƃ", "ƅ", "U+0254",
    "ƈ", "U+0256", "U+0257", "ƌ", "ǝ", "U+0259", "U+025B", "ƒ", "U+0260", "U+0263", "U+0269", "U+0268",
    "ƙ", "U+026F", "U+0272", "U+0275", "ơ", "ƣ", "ƥ", "ʀ", "ƨ", "ʃ", "ƭ", "ʈ",
    "ư", "ʊ", "ʋ", "ƴ", "ƶ", "ʒ", "ƹ", "ƽ", "ǆ", "ǆ", "ǉ", "ǉ",
    "ǌ", "ǌ", "ǎ", "ǐ", "ǒ", "ǔ", "ǖ", "ǘ", "ǚ", "ǜ", "ǟ", "ǡ",
    "ǣ", "ǥ", "ǧ", "ǩ", "ǫ", "ǭ", "ǯ", "ǳ", "ǳ", "ǵ", "ƕ", "ƿ",
    "ǹ", "ǻ", "ǽ", "ǿ", "ά", "έ", "ή", "ί", "ό", "ύ", "ώ", "α",
    "β", "γ", "δ", "ε", "ζ", "η", "θ", "ι", "κ", "λ", "μ", "ν",
    "ξ", "ο", "π", "ρ", "τ", "υ", "φ", "χ", "ψ", "ω", "ϊ", "ϋ",
    "ϗ", "ϙ", "ϛ", "ϝ", "ϟ", "ϡ", "ϣ", "ϥ", "ϧ", "ϩ", "ϫ", "ϭ",
    "ϯ", "θ", "ϸ", "ϲ", "ϻ", "U+037B", "U+037C", "U+037D", "ҁ", "ҋ", "ҍ", "ҏ",
    "ґ", "ғ", "ҕ", "җ", "ҙ", "қ", "ҝ", "ҟ", "ҡ", "ң", "ҥ", "ҧ",
    "ҩ", "ҫ", "ҭ", "ү", "ұ", "ҳ", "ҵ", "ҷ", "ҹ", "һ", "ҽ", "ҿ",
    "ӏ", "ӂ", "ӄ", "ӆ", "ӈ", "ӊ", "ӌ", "ӎ", "ӑ", "ӓ", "ӕ", "ӗ",
    "ә", "ӛ", "ӝ", "ӟ", "ӡ", "ӣ", "ӥ", "ӧ", "ө", "ӫ", "ӭ", "ӯ",
    "ӱ", "ӳ", "ӵ", "ӷ", "ӹ", "ӻ", "ӽ", "ӿ", "U+2D00", "U+2D01", "U+2D02", "U+2D03",
    "U+2D04", "U+2D05", "U+2D06", "U+2D07", "U+2D08", "U+2D09", "U+2D0A", "U+2D0B", "U+2D0C", "U+2D0D", "U+2D0E", "U+2D0F",
    "U+2D10", "U+2D11", "U+2D12", "U+2D13", "U+2D14", "U+2D15", "U+2D16", "U+2D17", "U+2D18", "U+2D19", "U+2D1A", "U+2D1B",
    "U+2D1C", "U+2D1D", "U+2D1E", "U+2D1F", "U+2D20", "U+2D21", "U+2D22", "U+2D23", "U+2D24", "U+2D25", "U+2D27", "U+2D2D",
    "U+AB70", "U+AB71", "U+AB72", "U+AB73", "U+AB74", "U+AB75", "U+AB76", "U+AB77", "U+AB78", "U+AB79", "U+AB7A", "U+AB7B",
    "U+AB7C", "U+AB7D", "U+AB7E", "U+AB7F", "ꮀ", "ꮁ", "ꮂ", "ꮃ", "ꮄ", "ꮅ", "ꮆ", "ꮇ",
    "ꮈ", "ꮉ", "ꮊ", "ꮋ", "ꮌ", "ꮍ", "ꮎ", "ꮏ", "ꮐ", "ꮑ", "ꮒ", "ꮓ",
    "ꮔ", "ꮕ", "ꮖ", "ꮗ", "ꮘ", "ꮙ", "ꮚ", "ꮛ", "ꮜ", "ꮝ", "ꮞ", "ꮟ",
    "ꮠ", "ꮡ", "ꮢ", "ꮣ", "ꮤ", "ꮥ", "ꮦ", "ꮧ", "ꮨ", "ꮩ", "ꮪ", "ꮫ",
    "ꮬ", "ꮭ", "ꮮ", "ꮯ", "ꮰ", "ꮱ", "ꮲ", "ꮳ", "ꮴ", "ꮵ", "ꮶ", "ꮷ",
    "ꮸ", "ꮹ", "ꮺ", "ꮻ", "ꮼ", "ꮽ", "ꮾ", "ꮿ", "ᏸ", "ᏹ", "ᏺ", "ᏻ",
    "ᏼ", "ᏽ", "ა", "ბ", "გ", "დ", "ე", "ვ", "ზ", "თ", "ი", "კ",
    "ლ", "მ", "ნ", "ო", "პ", "ჟ", "რ", "ს", "ტ", "უ", "ფ", "ქ",
    "ღ", "ყ", "შ", "ჩ", "ც", "ძ", "წ", "ჭ", "ხ", "ჯ", "ჰ", "ჱ",
    "ჲ", "ჳ", "ჴ", "ჵ", "ჶ", "ჷ", "ჸ", "ჹ", "ჺ", "ჽ", "ჾ", "ჿ",
    "ẁ", "ẃ", "ẅ", "ẇ", "ẉ", "ẋ", "ẍ", "ẏ", "ẑ", "ẓ", "ẕ", "ß",
    "ạ", "ả", "ấ", "ầ", "ẩ", "ẫ", "ậ", "ắ", "ằ", "ẳ", "ẵ", "ặ",
    "ẹ", "ẻ", "ẽ", "ế", "ề", "ể", "ễ", "ệ", "ỉ", "ị", "ọ", "ỏ",
    "ố", "ồ", "ổ", "ỗ", "ộ", "ớ", "ờ", "ở", "ỡ", "ợ", "ụ", "ủ",
    "ứ", "ừ", "ử", "ữ", "ự", "ỳ", "ỵ", "ỷ", "ỹ", "ỻ", "ỽ", "ỿ",
    "ᾀ", "ᾁ", "ᾂ", "ᾃ", "ᾄ", "ᾅ", "ᾆ", "ᾇ", "ᾐ", "ᾑ", "ᾒ", "ᾓ",
    "ᾔ", "ᾕ", "ᾖ", "ᾗ", "ᾠ", "ᾡ", "ᾢ", "ᾣ", "ᾤ", "ᾥ", "ᾦ", "ᾧ",
    "ᾰ", "ᾱ", "U+1F70", "U+1F71", "ᾳ", "U+1F72", "U+1F73", "U+1F74", "U+1F75", "ῃ", "ῐ", "ῑ",
    "U+1F76", "U+1F77", "ῠ", "ῡ", "U+1F7A", "U+1F7B", "ῥ", "U+1F78", "U+1F79", "U+1F7C", "U+1F7D", "ῳ",
    "ↄ", "ⓐ", "ⓑ", "ⓒ", "ⓓ", "ⓔ", "ⓕ", "ⓖ", "ⓗ", "ⓘ", "ⓙ", "ⓚ",
    "ⓛ", "ⓜ", "ⓝ", "ⓞ", "ⓟ", "ⓠ", "ⓡ", "ⓢ", "ⓣ", "ⓤ", "ⓥ", "ⓦ",
    "ⓧ", "ⓨ", "ⓩ", "ⲁ", "ⲃ", "ⲅ", "ⲇ", "ⲉ", "ⲋ", "ⲍ", "ⲏ", "ⲑ",
    "ⲓ", "ⲕ", "ⲗ", "ⲙ", "ⲛ", "ⲝ", "ⲟ", "ⲡ", "ⲣ", "ⲥ", "ⲧ", "ⲩ",
    "ⲫ", "ⲭ", "ⲯ", "ⲱ", "ⲳ", "ⲵ", "ⲷ", "ⲹ", "ⲻ", "ⲽ", "ⲿ", "ⳁ",
    "ⳃ", "ⳅ", "ⳇ", "ⳉ", "ⳋ", "ⳍ", "ⳏ", "ⳑ", "ⳓ", "ⳕ", "ⳗ", "ⳙ",
    "ⳛ", "ⳝ", "ⳟ", "ⳡ", "ⳣ", "ⳬ", "ⳮ", "ⳳ", "ꚁ", "ꚃ", "ꚅ", "ꚇ",
    "ꚉ", "ꚋ", "ꚍ", "ꚏ", "ꚑ", "ꚓ", "ꚕ", "ꚗ", "ꚙ", "ꚛ", "ꞁ", "ꞃ",
    "ꞅ", "ꞇ", "ꞌ", "U+0265", "ꞑ", "ꞓ", "ꞗ", "ꞙ", "ꞛ", "ꞝ", "ꞟ", "ꞡ",
    "ꞣ", "ꞥ", "ꞧ", "ꞩ", "U+0266", "U+025C", "U+0261", "U+026C", "U+026A", "ʞ", "ʇ", "ʝ",
    "U+AB53", "ꞵ", "ꞷ", "ꞹ", "ꞻ", "ꞽ", "ꞿ", "ꟁ", "ꟃ", "ꞔ", "ʂ", "ᶎ",
    "ꟈ", "ꟊ", "ꟑ", "ꟗ", "ꟙ", "ꟶ">>

UpperSet == {UnitAt(UpperLetters, i) : i \in 1..Len(UpperLetters)}

\* the lower-case letter of each upper-case letter
LowerMap ==
  [c \in UpperSet |->
     LowerLetters[CHOOSE i \in 1..Len(UpperLetters) : UnitAt(UpperLetters, i) = c]]

\* str.lower() on one character that is not the capital sigma
LowerChar(c) == IF c \in UpperSet THEN LowerMap[c] ELSE c

\* the cased characters that are not case-ignorable
CasedLetters ==
  "ABCDEFGHIJKLMNOPQRSTUVWXYZabcdefghijklmnopqrstuvwxyzªµºÀÁÂÃÄ"
  \o "ÅÆÇÈÉÊËÌÍÎÏÐÑÒÓÔÕÖØÙÚÛÜÝÞßàáâãäåæçèéêëìíîïðñòóôõöøùúûüýþÿƀƁƂ"
  \o "ƃƄƅƆƇƈƉƊƋƌƍƎƏƐƑƒƓƔƕƖƗƘƙƚƛƜƝƞƟƠơƢƣƤƥƦƧƨƩƪƫƬƭƮƯưƱƲƳƴƵƶƷƸƹƺƼƽƾƿ"
  \o "ǄǅǆǇǈǉǊǋǌǍǎǏǐǑǒǓǔǕǖǗǘǙǚǛǜǝǞǟǠǡǢǣǤǥǦǧǨǩǪǫǬǭǮǯǰǱǲǳǴǵǶǷǸǹǺǻǼǽǾǿ"
  \o "ʀʁʂʃʄʅʆʇʈʉʊʋʌʍʎʏʐʑʒʓʕʖʗʘʙʚʛʜʝʞʟʠʡʢʣʤʥʦʧʨʩʪʫʬʭʮʯΆΈΉΊΌΎΏΐΑΒΓΔΕ"
  \o "ΖΗΘΙΚΛΜΝΞΟΠΡΣΤΥΦΧΨΩΪΫάέήίΰαβγδεζηθικλμνξοπρςστυφχψωϊϋόύώϏϐϑϒ"
  \o "ϓϔϕϖϗϘϙϚϛϜϝϞϟϠϡϢϣϤϥϦϧϨϩϪϫϬϭϮϯϰϱϲϳϴϵϷϸϹϺϻϼϽϾϿҀҁҊҋҌҍҎҏҐґҒғҔҕҖҗ"
  \o "ҘҙҚқҜҝҞҟҠҡҢңҤҥҦҧҨҩҪҫҬҭҮүҰұҲҳҴҵҶҷҸҹҺһҼҽҾҿӀӁӂӃӄӅӆӇӈӉӊӋӌӍӎӏӐӑӒӓ"
  \o "ӔӕӖӗӘәӚӛӜӝӞӟӠӡӢӣӤӥӦӧӨөӪӫӬӭӮӯӰӱӲӳӴӵӶӷӸӹӺӻӼӽӾӿրցւփքօֆևֈႠႡႢႣႤႥႦ"
  \o "ႧႨႩႪႫႬႭႮႯႰႱႲႳႴႵႶႷႸႹႺႻႼႽႾႿჀჁჂჃჄჅჇჍაბგდევზთიკლმნოპჟრსტუფქღყშჩც"
  \o "ძწჭხჯჰჱჲჳჴჵჶჷჸჹჺჽჾჿᎠᎡᎢᎣᎤᎥᎦᎧᎨᎩᎪᎫᎬᎭᎮᎯᎰᎱᎲᎳᎴᎵᎶᎷᎸᎹᎺᎻᎼᎽᎾᎿᏀᏁᏂᏃᏄᏅᏆᏇᏈ"
  \o "ᏉᏊᏋᏌᏍᏎᏏᏐᏑᏒᏓᏔᏕᏖᏗᏘᏙᏚᏛᏜᏝᏞᏟᏠᏡᏢᏣᏤᏥᏦᏧᏨᏩᏪᏫᏬᏭᏮᏯᏰᏱᏲᏳᏴᏵᏸᏹᏺᏻᏼᏽᲀᲁᲂᲃᲄᲅᲆᲇᲈ"
  \o "ᲐᲑᲒᲓᲔᲕᲖᲗᲘᲙᲚᲛᲜᲝᲞᲟᲠᲡᲢᲣᲤᲥᲦᲧᲨᲩᲪᲫᲬᲭᲮᲯᲰᲱᲲᲳᲴᲵᲶᲷᲸᲹᲺᲽᲾᲿᶀᶁᶂᶃᶄᶅᶆᶇᶈᶉᶊᶋᶌᶍ"
  \o "ᶎᶏᶐᶑᶒᶓᶔᶕᶖᶗᶘᶙᶚẀẁẂẃẄẅẆẇẈẉẊẋẌẍẎẏẐẑẒẓẔẕẖẗẘẙẚẛẜẝẞẟẠạẢảẤấẦầẨẩẪẫẬậẮ"
  \o "ắẰằẲẳẴẵẶặẸẹẺẻẼẽẾếỀềỂểỄễỆệỈỉỊịỌọỎỏỐốỒồỔổỖỗỘộỚớỜờỞởỠỡỢợỤụỦủỨứỪ"
  \o "ừỬửỮữỰựỲỳỴỵỶỷỸỹỺỻỼỽỾỿᾀᾁᾂᾃᾄᾅᾆᾇᾈᾉᾊᾋᾌᾍᾎᾏᾐᾑᾒᾓᾔᾕᾖᾗᾘᾙᾚᾛᾜᾝᾞᾟᾠᾡᾢᾣᾤᾥᾦ"
  \o "ᾧᾨᾩᾪᾫᾬᾭᾮᾯᾰᾱᾲᾳᾴᾶᾷᾸᾹᾺΆᾼιῂῃῄῆῇῈΈῊΉῌῐῑῒΐῖῗῘῙῚΊῠῡῢΰῤῥῦῧῨῩῪΎῬῲῳῴῶῷ"
  \o "ῸΌῺΏῼↃↄⒶⒷⒸⒹⒺⒻⒼⒽⒾⒿⓀⓁⓂⓃⓄⓅⓆⓇⓈⓉⓊⓋⓌⓍⓎⓏⓐⓑⓒⓓⓔⓕⓖⓗⓘⓙⓚⓛⓜⓝⓞⓟⓠⓡⓢⓣⓤⓥⓦⓧⓨⓩⲀ"
  \o "ⲁⲂⲃⲄⲅⲆⲇⲈⲉⲊⲋⲌⲍⲎⲏⲐⲑⲒⲓⲔⲕⲖⲗⲘⲙⲚⲛⲜⲝⲞⲟⲠⲡⲢⲣⲤⲥⲦⲧⲨⲩⲪⲫⲬⲭⲮⲯⲰⲱⲲⲳⲴⲵⲶⲷⲸⲹⲺⲻⲼ"
  \o "ⲽⲾⲿⳀⳁⳂⳃⳄⳅⳆⳇⳈⳉⳊⳋⳌⳍⳎⳏⳐⳑⳒⳓⳔⳕⳖⳗⳘⳙⳚⳛⳜⳝⳞⳟⳠⳡⳢⳣⳤⳫⳬⳭⳮⳲⳳꚀꚁꚂꚃꚄꚅꚆꚇꚈꚉꚊꚋꚌꚍ"
  \o "ꚎꚏꚐꚑꚒꚓꚔꚕꚖꚗꚘꚙꚚꚛꞀꞁꞂꞃꞄꞅꞆꞇꞋꞌꞍꞎꞐꞑꞒꞓꞔꞕꞖꞗꞘꞙꞚꞛꞜꞝꞞꞟꞠꞡꞢꞣꞤꞥꞦꞧꞨꞩꞪꞫꞬꞭꞮꞯꞰꞱ"
  \o "ꞲꞳꞴꞵꞶꞷꞸꞹꞺꞻꞼꞽꞾꞿꟀꟁꟂꟃꟄꟅꟆꟇꟈꟉꟊꟐꟑꟓꟕꟖꟗꟘꟙꟵꟶꟺꮀꮁꮂꮃꮄꮅꮆꮇꮈꮉꮊꮋꮌꮍꮎꮏꮐꮑꮒꮓꮔꮕꮖꮗ"
  \o "ꮘꮙꮚꮛꮜꮝꮞꮟꮠꮡꮢꮣꮤꮥꮦꮧꮨꮩꮪꮫꮬꮭꮮꮯꮰꮱꮲꮳꮴꮵꮶꮷꮸꮹꮺꮻꮼꮽꮾꮿ"

\* the case-ignorable characters
CaseIgnorable ==
  "'.:^¨­¯´·¸ʰʱʲʳʴʵʶʷʸʹʺʻʼʽʾʿˀˁ˂˃˄˅ˆˇˈˉˊˋˌˍˎˏːˑ˒˓˔˕˖˗˘˙˚˛˜˝˞˟ˠˡ"
  \o "ˢˣˤ˥˦˧˨˩˪˫ˬ˭ˮ˯˰˱˲˳˴˵˶˷˸˹˺˻˼˽˾˿΄΅·҃҄҅҆҇҈҉֑֖֛֢֣֤֚֒֓֔֕֗֘֙֜֝֞֟֠֡"
  \o "ְֱֲֳִֵֶַָׇֹֺֻּֽֿׁׂ֥֦֧֪ׅ֭֮֨֩֫֬֯ׄ״ۖۗۘۙۚۛۜ۝ۣ۟۠ۡۢۤۥۦ۪ۭۧۨ۫۬ަާިީުޫ"
  \o "ެޭޮޯް߲߫߬߭߮߯߰߱߳ߴߵߺ߽࢈࢐࢑࢙࢚࢛࢘࢜࢝࢞࢟ࣉ࣏࣐࣑࣒࣓࣊࣋࣌࣍࣎ࣔࣕࣖࣗࣘࣙࣚࣛࣜࣝࣞࣟ࣠࣡࣢ࣣࣦࣤࣥࣧ"
  \o "ࣰࣱࣲࣩ࣭࣮࣯ࣶࣹࣺࣨ࣪࣫࣬ࣳࣴࣵࣷࣸࣻࣼࣽࣾࣿঁ়ুূৃৄ্ৢৣ৾ઁં઼ુૂૃૄૅેૈ્ૢૣૺૻૼ૽૾૿ஂீ்ಁ಼ಿೆ"
  \o "ೌ್ೢೣඁ්ිීුූັິີຶື຺ຸູົຼໆ່້໊໋໌ໍ྄ཱྀྀྂྃ྆྇ྍྎྏྐྑྒྒྷྔྕྖྗྙྚྛྜྜྷྞྟྠྡྡྷྣྤྥྦྦྷ"
  \o "ྨྩྪྫྫྷྭྮྯྰྱྲླྴྵྶྷྸྐྵྺྻྼ࿆ႂႅႆႍႝჼ឴឵ិីឹឺុូួំ៉៊់៌៍៎៏័៑្៓ៗ៝ᢅᢆᢩᪧ᪰᪱᪲᪳᪴"
  \o "᪵᪶᪷᪸᪹᪺᪽᪻᪼᪾ᪿᫀ᫃᫄᫊᫁᫂᫅᫆᫇᫈᫉᫋ᫌᫍᫎᮀᮁᮢᮣᮤᮥᮨᮩ᮫ᮬᮭ᯦ᯨᯩᯭᯯᯰᯱ᳔᳕᳖᳗᳘᳙᳜᳝᳞᳟᳐᳑᳒᳚᳛᳠"
  \o "᳢᳣᳤᳥᳦᳧᳨᳭᳴᳸᳹ᶛᶜᶝᶞᶟᶠᶡᶢᶣᶤᶥᶦᶧᶨᶩᶪᶫᶬᶭᶮᶯᶰᶱᶲᶳᶴᶵᶶᶷᶸᶹᶺᶻᶼᶽᶾᶿ᷂᷊᷀᷁᷃᷄᷅᷆᷇᷈᷉᷋"
  \o "᷐᷎᷺᷏᷹᷽᷿᷷᷸᷌᷑᷒ᷓᷔᷕᷖᷗᷘᷙᷚᷛᷜᷝᷞᷟᷠᷡᷢᷣᷤᷥᷦᷧᷨᷩᷪᷫᷬᷭᷮᷯᷰᷱᷲᷳᷴ᷵᷻᷾᷶᷼᷍᾽᾿῀῁῍῎῏῝"
  \o "῞῟῭΅`´῾ₐₑₒₓₔₕₖₗₘₙₚₛₜ⃒⃓⃘⃙⃚⃐⃑⃔⃕⃖⃗⃛⃜⃝⃞⃟⃠⃡⃢⃣⃤⃥⃦⃪⃫⃨⃬⃭⃮⃯⃧⃩⃰⳯⳰⳱ⷠⷡⷢⷣ"
  \o "゙゚ⷤⷥⷦⷧⷨⷩⷪⷫⷬⷭⷮⷯⷰⷱⷲⷳⷴⷵⷶⷷⷸⷹⷺⷻⷼⷽⷾⷿ゛゜ゝゞーヽヾꓸꓹꓺꓻꓼꓽꚜꚝꚞꚟ꛰꛱ꞈ꞉꞊ꟲꟳꟴꟸꟹ꣄ꣅ꣠"
  \o "꣡꣢꣣꣤꣥꣦꣧꣨꣩꣪꣫꣬꣭꣮꣯꣰꣱ꣿꦀꦁꦂ꦳ꦶꦷꦸꦹꦼꦽꧏꧥꧦꪴꪰꪲꪳꪷꪸꪾ꪿꫁ꫝꫬꫭꫳꫴ꫶ꯥꯨ꯭﮲﮳﮴﮵﮶﮷﮸﮹﮺﮻﮼"
  \o "﮽﮾﮿﯀﯁﯂﻿ﾞﾟ￣￹￺￻"

\* c in s, for one character c
CharIn(c, s) == \E i \in 1..Len(s) : UnitAt(s, i) = c

\* the capital sigma at cs[i] ends a word: the nearest character before it
\* that is not case-ignorable is cased, and the nearest one after it, if
\* any, is not
FinalSigma(cs, i) ==
  /\ \E j \in 1..(i - 1) :
       /\ CharIn(cs[j], CasedLetters)
       /\ \A k \in (j + 1)..(i - 1) : CharIn(cs[k], CaseIgnorable)
  /\ ~ \E j \in (i + 1)..Len(cs) :
         /\ CharIn(cs[j], CasedLetters)
         /\ \A k \in (i + 1)..(j - 1) : CharIn(cs[k], CaseIgnorable)

\* the character of the lowered string that stands for cs[i], cs being the
\* characters of the string
\* (the capital sigma becomes the final small sigma at the end of a word)
LowerAt(cs, i) ==
  IF cs[i] = "Σ"
  THEN (IF FinalSigma(cs, i) THEN "ς" ELSE "σ")
  ELSE LowerChar(cs[i])

RECURSIVE LowerRange(_, _, _)
\* the characters a..b of the lowered string; the two halves are taken
\* separately, which keeps the recursion shallow on a long text
LowerRange(cs, a, b) ==
  IF a > b THEN <<>>
  ELSE IF a = b THEN <<LowerAt(cs, a)>>
  ELSE LowerRange(cs, a, (a + b) \div 2) \o LowerRange(cs, (a + b) \div 2 + 1, b)

\* list(s.lower())
Lower(s) == LET cs == Chars(s) IN LowerRange(cs, 1, Len(cs))

\* the control characters U+000B (vertical tab) and U+001C..U+001F (file,
\* group, record and unit separator), written as themselves
ControlSpaces == ""

\* the whitespace outside ASCII: U+0085 (next line), U+00A0 (no-break
\* space) and U+1680 (ogham space mark), written as themselves
UnicodeSpaces == "  "

\* the characters str.strip() treats as whitespace
IsSpace(c) ==
  \/ c \in {" ", "\t", "\n", "\r", "\f"}
  \/ CharIn(c, ControlSpaces)
  \/ CharIn(c, UnicodeSpaces)

RECURSIVE LStrip(_)
\* white space, signs, underscores and digits are characters of one unit, and
\* no half of a character above U+FFFF is one of them: str.strip() and int()
\* are read off the units of the string
LStrip(s) ==
  IF s # "" /\ IsSpace(UnitAt(s, 1)) THEN LStrip(SubSeq(s, 2, Len(s))) ELSE s

RECURSIVE RStrip(_)
RStrip(s) ==
  IF s # "" /\ IsSpace(UnitAt(s, Len(s))) THEN RStrip(SubSeq(s, 1, Len(s) - 1)) ELSE s

\* str.strip()
Strip(s) == RStrip(LStrip(s))

\* needle in hay, for two strings or for two lists of characters
Contains(hay, needle) ==
  \E i \in 1..(Len(hay) - Len(needle) + 1) : SubSeq(hay, i, i + Len(needle) - 1) = needle

RECURSIVE Join(_, _)
\* sep.join(parts)
Join(sep, parts) ==
  IF parts = <<>> THEN ""
  ELSE IF Len(parts) = 1 THEN parts[1]
  ELSE parts[1] \o sep \o Join(sep, Tail(parts))

\* x in xs, for a list
InList(x, xs) == \E i \in 1..Len(xs) : xs[i] = x

Digits == "0123456789"

\* the decimal digits of the other scripts, zero to nine script after script
UnicodeDigits ==
  "۰۱۲۳۴۵۶۷۸۹߀߁߂߃߄߅߆߇߈߉০১২৩৪৫৬৭৮৯૦૧૨૩૪૫૬૭૮૯௦௧௨௩௪௫௬௭௮௯೦೧೨೩೪೫೬೭೮೯"
  \o "෦෧෨෩෪෫෬෭෮෯໐໑໒໓໔໕໖໗໘໙႐႑႒႓႔႕႖႗႘႙០១២៣៤៥៦៧៨៩᧐᧑᧒᧓᧔᧕᧖᧗᧘᧙᪀᪁᪂᪃᪄᪅᪆᪇᪈᪉"
  \o "᪐᪑᪒᪓᪔᪕᪖᪗᪘᪙᮰᮱᮲᮳᮴᮵᮶᮷᮸᮹꣐꣑꣒꣓꣔꣕꣖꣗꣘꣙꧐꧑꧒꧓꧔꧕꧖꧗꧘꧙꧰꧱꧲꧳꧴꧵꧶꧷꧸꧹꯰꯱꯲꯳꯴꯵꯶꯷꯸꯹"

DecimalDigits == Digits \o UnicodeDigits

IsDigit(c) == CharIn(c, DecimalDigits)

DigitValue(c) ==
  ((CHOOSE i \in 1..Len(DecimalDigits) : UnitAt(DecimalDigits, i) = c) - 1) % Len(Digits)

RECURSIVE DigitsValue(_)
DigitsValue(s) ==
  IF s = "" THEN 0
  ELSE DigitsValue(SubSeq(s, 1, Len(s) - 1)) * Len(Digits) + DigitValue(UnitAt(s, Len(s)))

AllDigits(s) == s # "" /\ \A i \in 1..Len(s) : IsDigit(UnitAt(s, i))

HasSign(s) == s # "" /\ UnitAt(s, 1) \in {"+", "-"}

Unsigned(s) == IF HasSign(s) THEN SubSeq(s, 2, Len(s)) ELSE s

\* every underscore stands between two digits
SingleUnderscores(s) ==
  \A i \in 1..Len(s) :
    UnitAt(s, i) = "_" =>
      /\ 1 < i /\ i < Len(s)
      /\ IsDigit(UnitAt(s, i - 1))
      /\ IsDigit(UnitAt(s, i + 1))

RECURSIVE WithoutUnderscores(_)
WithoutUnderscores(s) ==
  IF s = "" THEN ""
  ELSE (IF UnitAt(s, 1) = "_" THEN "" ELSE UnitAt(s, 1))
         \o WithoutUnderscores(SubSeq(s, 2, Len(s)))

\* the whitespace int() skips around a numeral: blank, tab, line feed,
\* vertical tab, form feed, carriage return and the whitespace outside
\* ASCII, and not the separators U+001C..U+001F that str.strip() removes
IsIntSpace(c) ==
  \/ c \in {" ", "\t", "\n", "\r", "\f", UnitAt(ControlSpaces, 1)}
  \/ CharIn(c, UnicodeSpaces)

RECURSIVE IntStrip(_)
\* s without the whitespace int() skips at its two ends
IntStrip(s) ==
  IF s # "" /\ IsIntSpace(UnitAt(s, 1)) THEN IntStrip(SubSeq(s, 2, Len(s)))
  ELSE IF s # "" /\ IsIntSpace(UnitAt(s, Len(s))) THEN IntStrip(SubSeq(s, 1, Len(s) - 1))
  ELSE s

\* int() refuses a numeral of more digits (sys.get_int_max_str_digits())
MaxStrDigits == 4300

\* int(s) accepts an optional sign followed by at most 4300 decimal digits,
\* which single underscores may separate, surrounded by whitespace
IsIntLiteral(s) ==
  /\ SingleUnderscores(Unsigned(IntStrip(s)))
  /\ AllDigits(WithoutUnderscores(Unsigned(IntStrip(s))))
  /\ Len(WithoutUnderscores(Unsigned(IntStrip(s)))) <= MaxStrDigits

IntOfStr(s) ==
  IF UnitAt(IntStrip(s), 1) = "-"
  THEN 0 - DigitsValue(WithoutUnderscores(Unsigned(IntStrip(s))))
  ELSE DigitsValue(WithoutUnderscores(Unsigned(IntStrip(s))))

(***************************************************************************)
(* Python values of the free-form fields.                                  *)
(***************************************************************************)
PyNone == [t |-> "none", s |-> "", n |-> 0, l |-> <<>>]

PyStr(x) == [t |-> "str", s |-> x, n |-> 0, l |-> <<>>]

PyInt(x) == [t |-> "int", s |-> "", n |-> x, l |-> <<>>]

PyList(x) == [t |-> "list", s |-> "", n |-> 0, l |-> x]

\* bool(v): None, "", 0 and [] are false
Truthy(v) ==
  CASE v.t = "none" -> FALSE
    [] v.t = "str" -> v.s # ""
    [] v.t = "int" -> v.n # 0
    [] v.t = "list" -> v.l # <<>>

\* v or d
PyOr(v, d) == IF Truthy(v) THEN v ELSE d

\* isinstance(v, str)
IsStr(v) == v.t = "str"

RECURSIVE SelectStrs(_)
\* [x for x in l if isinstance(x, str)]
SelectStrs(l) ==
  IF l = <<>> THEN <<>>
  ELSE IF IsStr(Head(l)) THEN <<Head(l).s>> \o SelectStrs(Tail(l))
  ELSE SelectStrs(Tail(l))

\* iterating a value: a list yields its items, a string its characters
Iterable(v) == v.t \in {"list", "str"}

Items(v) ==
  IF v.t = "str" THEN [i \in 1..Len(Chars(v.s)) |-> PyStr(Chars(v.s)[i])] ELSE v.l

\* int(v) raises on a list, on None and on a string that is no integer literal
IntRaises(v) ==
  CASE v.t = "int" -> FALSE
    [] v.t = "str" -> ~IsIntLiteral(v.s)
    [] OTHER -> TRUE

IntOf(v) == IF v.t = "int" THEN v.n ELSE IntOfStr(v.s)

\* d.get(k) of a dict that may be None or empty
DictGet(d, k) == IF d.present THEN d[k] ELSE PyNone

(***************************************************************************)
(* /roadmap: cleaning of the request and reading of the optional fields.   *)
(***************************************************************************)
RECURSIVE CleanMissing(_)
\* [m.strip() for m in (req.missing or []) if m and isinstance(m, str)]
CleanMissing(l) ==
  IF l = <<>> THEN <<>>
  ELSE IF Truthy(Head(l)) /\ IsStr(Head(l)) THEN <<Strip(Head(l).s)>> \o CleanMissing(Tail(l))
  ELSE CleanMissing(Tail(l))

DefaultPace_slow == "slow"

DefaultPace == "balanced"

DefaultHours == 6

DefaultAvgScore == 0

\* prefs.get("focus") or []
FocusValue(prefs) == PyOr(DictGet(prefs, "focus"), PyList(<<>>))

\* prefs.get("pace") or "balanced"
PaceValue(prefs) == PyOr(DictGet(prefs, "pace"), PyStr(DefaultPace))

\* prefs.get("availability_hours") or 6
HoursValue(prefs) == PyOr(DictGet(prefs, "availability_hours"), PyInt(DefaultHours))

\* interview.get("weak_topics") or []
WeakValue(interview) == PyOr(DictGet(interview, "weak_topics"), PyList(<<>>))

\* interview.get("strength_topics") or []
StrengthValue(interview) == PyOr(DictGet(interview, "strength_topics"), PyList(<<>>))

\* interview.get("avg_score") or 0
AvgValue(interview) == PyOr(DictGet(interview, "avg_score"), PyInt(DefaultAvgScore))

RECURSIVE LowerAll(_)
LowerAll(l) == IF l = <<>> THEN <<>> ELSE <<Lower(Head(l))>> \o LowerAll(Tail(l))

\* focus = [f.lower() for f in (prefs.get("focus") or []) if isinstance(f, str)]
Focus(prefs) == LowerAll(SelectStrs(Items(FocusValue(prefs))))

\* pace = (prefs.get("pace") or "balanced").lower()
Pace(prefs) == Lower(PaceValue(prefs).s)

\* hours = int(prefs.get("availability_hours") or 6)
Hours(prefs) == IntOf(HoursValue(prefs))

\* weak_topics = [t for t in (interview.get("weak_topics") or []) if isinstance(t, str)]
WeakTopics(interview) == SelectStrs(Items(WeakValue(interview)))

\* strength_topics = [t for t in (interview.get("strength_topics") or []) if isinstance(t, str)]
StrengthTopics(interview) == SelectStrs(Items(StrengthValue(interview)))

\* avg_score = int(interview.get("avg_score") or 0)
AvgScore(interview) == IntOf(AvgValue(interview))

\* lines 84-86 raise: iterating a value that is no list or string, .lower()
\* of a value that is no string, int() of a value it does not accept
PrefsRaises(prefs) ==
  \/ ~Iterable(FocusValue(prefs))
  \/ ~IsStr(PaceValue(prefs))
  \/ IntRaises(HoursValue(prefs))

\* lines 106-108 raise
InterviewRaises(interview) ==
  \/ ~Iterable(WeakValue(interview))
  \/ ~Iterable(StrengthValue(interview))
  \/ IntRaises(AvgValue(interview))

(***************************************************************************)
(* /roadmap: prioritization.                                               *)
(***************************************************************************)
\* area_map.get(area, [])
area_map(area) ==
  CASE area = Chars("frontend") -> <<"React", "TailwindCSS">>
    [] area = Chars("backend") -> <<"Node.js", "Express", "MongoDB">>
    [] area = Chars("cloud") -> <<"AWS", "Docker">>
    [] area = Chars("ml") -> <<"Python", "NLP">>
    [] OTHER -> <<>>

TakesAreaSkill_any(s, missing, prio) == ~InList(s, prio)

\* if s in missing and s not in prioritized
TakesAreaSkill(s, missing, prio) == InList(s, missing) /\ ~InList(s, prio)

TakesRemaining_always(s, prio) == TRUE

\* if s not in prioritized
TakesRemaining(s, prio) == ~InList(s, prio)

RECURSIVE AppendAreaSkills(_, _, _)
\* for s in area_map.get(area, []): ...
AppendAreaSkills(prio, skills, missing) ==
  IF skills = <<>> THEN prio
  ELSE AppendAreaSkills(
         IF TakesAreaSkill(Head(skills), missing, prio)
         THEN Append(prio, Head(skills)) ELSE prio,
         Tail(skills), missing)

RECURSIVE AppendFocus(_, _, _)
\* for area in focus: ...
AppendFocus(prio, focus, missing) ==
  IF focus = <<>> THEN prio
  ELSE AppendFocus(AppendAreaSkills(prio, area_map(Head(focus)), missing),
                   Tail(focus), missing)

RECURSIVE AppendRemaining(_, _)
\* for s in missing: if s not in prioritized: prioritized.append(s)
AppendRemaining(prio, rest) ==
  IF rest = <<>> THEN prio
  ELSE AppendRemaining(
         IF TakesRemaining(Head(rest), prio)
         THEN Append(prio, Head(rest)) ELSE prio,
         Tail(rest))

Prioritized_missingFirst(missing, focus) ==
  AppendFocus(AppendRemaining(<<>>, missing), focus, missing)

\* the list prioritized after both loops
Prioritized(missing, focus) == AppendRemaining(AppendFocus(<<>>, focus, missing), missing)

(***************************************************************************)
(* /roadmap: learning resources.                                           *)
(***************************************************************************)
\* the keys of skill_resources in the order the dict enumerates them
SkillKeys == <<"React", "Node.js", "Python", "MongoDB", "Express", "AWS", "Docker", "TailwindCSS", "NLP">>

Res(title, url, type) == [title |-> title, url |-> url, type |-> type]

\* skill_resources[key][bucket]
skill_resources(key, bucket) ==
  CASE key = "React" /\ bucket = "foundations" -> <<
         Res("React Official Documentation",
             "https://react.dev/learn",
             "documentation"),
         Res("React Tutorial for Beginners",
             "https://www.freecodecamp.org/news/react-beginner-handbook/",
             "tutorial"),
         Res("React Hooks Explained",
             "https://www.youtube.com/watch?v=O6P86uwfdR0",
             "video")>>
    [] key = "React" /\ bucket = "project" -> <<
         Res("React Project Ideas",
             "https://github.com/florinpop17/app-ideas",
             "project-ideas"),
         Res("Testing React Apps",
             "https://testing-library.com/docs/react-testing-library/intro/",
             "documentation"),
         Res("React Best Practices",
             "https://react.dev/learn/thinking-in-react",
             "guide")>>
    [] key = "Node.js" /\ bucket = "foundations" -> <<
         Res("Node.js Official Docs",
             "https://nodejs.org/en/docs/",
             "documentation"),
         Res("Node.js Tutorial",
             "https://www.w3schools.com/nodejs/",
             "tutorial"),
         Res("Node.js Crash Course",
             "https://www.youtube.com/watch?v=fBNz5xF-Kx4",
             "video")>>
    [] key = "Node.js" /\ bucket = "project" -> <<
         Res("Express.js Guide",
             "https://expressjs.com/en/starter/installing.html",
             "documentation"),
         Res("Node.js Testing with Jest",
             "https://jestjs.io/docs/getting-started",
             "documentation"),
         Res("Node.js Best Practices",
             "https://github.com/goldbergyoni/nodebestpractices",
             "guide")>>
    [] key = "Python" /\ bucket = "foundations" -> <<
         Res("Python Official Tutorial",
             "https://docs.python.org/3/tutorial/",
             "documentation"),
         Res("Python for Beginners",
             "https://www.python.org/about/gettingstarted/",
             "tutorial"),
         Res("Python Crash Course",
             "https://www.youtube.com/watch?v=rfscVS0vtbw",
             "video")>>
    [] key = "Python" /\ bucket = "project" -> <<
         Res("Python Project Ideas",
             "https://github.com/karan/Projects",
             "project-ideas"),
         Res("Python Testing with pytest",
             "https://docs.pytest.org/en/stable/",
             "documentation"),
         Res("Python Best Practices",
             "https://realpython.com/python-code-quality/",
             "guide")>>
    [] key = "MongoDB" /\ bucket = "foundations" -> <<
         Res("MongoDB University",
             "https://university.mongodb.com/",
             "course"),
         Res("MongoDB Tutorial",
             "https://www.mongodb.com/docs/manual/tutorial/",
             "tutorial"),
         Res("MongoDB Crash Course",
             "https://www.youtube.com/watch?v=pWbMrx5rVBE",
             "video")>>
    [] key = "MongoDB" /\ bucket = "project" -> <<
         Res("MongoDB with Node.js",
             "https://www.mongodb.com/docs/drivers/node/current/",
             "documentation"),
         Res("MongoDB Schema Design",
             "https://www.mongodb.com/docs/manual/data-modeling/",
             "guide"),
         Res("MongoDB Performance",
             "https://www.mongodb.com/docs/manual/administration/analyzing-mongodb-performance/",
             "guide")>>
    [] key = "Express" /\ bucket = "foundations" -> <<
         Res("Express.js Official Guide",
             "https://expressjs.com/en/guide/routing.html",
             "documentation"),
         Res("Express.js Tutorial",
             "https://www.tutorialspoint.com/expressjs/",
             "tutorial"),
         Res("Express.js Crash Course",
             "https://www.youtube.com/watch?v=L72fhGm1tfE",
             "video")>>
    [] key = "Express" /\ bucket = "project" -> <<
         Res("Express.js Best Practices",
             "https://expressjs.com/en/advanced/best-practice-security.html",
             "guide"),
         Res("Express.js Testing",
             "https://www.albertgao.xyz/2017/05/24/how-to-test-expressjs-with-jest-and-supertest/",
             "tutorial"),
         Res("Express.js Middleware",
             "https://expressjs.com/en/guide/using-middleware.html",
             "documentation")>>
    [] key = "AWS" /\ bucket = "foundations" -> <<
         Res("AWS Getting Started",
             "https://aws.amazon.com/getting-started/",
             "documentation"),
         Res("AWS Free Tier",
             "https://aws.amazon.com/free/",
             "tutorial"),
         Res("AWS Fundamentals",
             "https://www.youtube.com/watch?v=ulprqHHWlng",
             "video")>>
    [] key = "AWS" /\ bucket = "project" -> <<
         Res("AWS Project Ideas",
             "https://aws.amazon.com/getting-started/hands-on/",
             "project-ideas"),
         Res("AWS Well-Architected",
             "https://aws.amazon.com/architecture/well-architected/",
             "guide"),
         Res("AWS Security Best Practices",
             "https://aws.amazon.com/architecture/security-identity-compliance/",
             "guide")>>
    [] key = "Docker" /\ bucket = "foundations" -> <<
         Res("Docker Official Tutorial",
             "https://docs.docker.com/get-started/",
             "documentation"),
         Res("Docker for Beginners",
             "https://docker-curriculum.com/",
             "tutorial"),
         Res("Docker Crash Course",
             "https://www.youtube.com/watch?v=fqMOX6JJhGo",
             "video")>>
    [] key = "Docker" /\ bucket = "project" -> <<
         Res("Docker Best Practices",
             "https://docs.docker.com/develop/dev-best-practices/",
             "guide"),
         Res("Docker Compose Tutorial",
             "https://docs.docker.com/compose/gettingstarted/",
             "tutorial"),
         Res("Docker Security",
             "https://docs.docker.com/engine/security/",
             "guide")>>
    [] key = "TailwindCSS" /\ bucket = "foundations" -> <<
         Res("Tailwind CSS Documentation",
             "https://tailwindcss.com/docs",
             "documentation"),
         Res("Tailwind CSS Tutorial",
             "https://www.youtube.com/watch?v=UBOj6rqRUME",
             "video"),
         Res("Tailwind CSS Components",
             "https://tailwindui.com/components",
             "examples")>>
    [] key = "TailwindCSS" /\ bucket = "project" -> <<
         Res("Tailwind CSS Best Practices",
             "https://tailwindcss.com/docs/reusing-styles",
             "guide"),
         Res("Tailwind CSS with React",
             "https://tailwindcss.com/docs/guides/create-react-app",
             "tutorial"),
         Res("Responsive Design with Tailwind",
             "https://tailwindcss.com/docs/responsive-design",
             "documentation")>>
    [] key = "NLP" /\ bucket = "foundations" -> <<
         Res("Natural Language Processing with Python",
             "https://www.nltk.org/book/",
             "book"),
         Res("spaCy Tutorial",
             "https://spacy.io/usage/spacy-101",
             "tutorial"),
         Res("NLP Course by Hugging Face",
             "https://huggingface.co/course/chapter1/1",
             "course")>>
    [] key = "NLP" /\ bucket = "project" -> <<
         Res("NLP Project Ideas",
             "https://github.com/keon/awesome-nlp",
             "project-ideas"),
         Res("Transformers Library",
             "https://huggingface.co/docs/transformers/index",
             "documentation"),
         Res("NLP with PyTorch",
             "https://pytorch.org/tutorials/beginner/nlp/",
             "tutorial")>>
    [] OTHER -> <<>>

default_resources_notInterpolated(skill, bucket) ==
  CASE bucket = "foundations" -> <<
         Res("{skill} Official Documentation",
             "https://www.google.com/search?q={skill}+official+documentation",
             "documentation"),
         Res("{skill} Tutorial",
             "https://www.google.com/search?q={skill}+tutorial+beginner",
             "tutorial"),
         Res("{skill} Video Course",
             "https://www.youtube.com/results?search_query={skill}+crash+course",
             "video")>>
    [] bucket = "project" -> <<
         Res("{skill} Project Ideas",
             "https://www.google.com/search?q={skill}+project+ideas",
             "project-ideas"),
         Res("{skill} Best Practices",
             "https://www.google.com/search?q={skill}+best+practices",
             "guide"),
         Res("{skill} Testing Guide",
             "https://www.google.com/search?q={skill}+testing+guide",
             "guide")>>
    [] OTHER -> <<>>

\* default_resources[bucket], synthesized from the skill name
default_resources(skill, bucket) ==
  CASE bucket = "foundations" -> <<
         Res(skill \o " Official Documentation",
             "https://www.google.com/search?q=" \o skill \o "+official+documentation",
             "documentation"),
         Res(skill \o " Tutorial",
             "https://www.google.com/search?q=" \o skill \o "+tutorial+beginner",
             "tutorial"),
         Res(skill \o " Video Course",
             "https://www.youtube.com/results?search_query=" \o skill \o "+crash+course",
             "video")>>
    [] bucket = "project" -> <<
         Res(skill \o " Project Ideas",
             "https://www.google.com/search?q=" \o skill \o "+project+ideas",
             "project-ideas"),
         Res(skill \o " Best Practices",
             "https://www.google.com/search?q=" \o skill \o "+best+practices",
             "guide"),
         Res(skill \o " Testing Guide",
             "https://www.google.com/search?q=" \o skill \o "+testing+guide",
             "guide")>>
    [] OTHER -> <<>>

\* the bucket chosen from the text of the milestone, given in lower case
BucketOf(lowered) ==
  IF Contains(lowered, Chars("foundations")) THEN "foundations"
  ELSE IF Contains(lowered, Chars("project")) THEN "project"
  ELSE IF Contains(lowered, Chars("reinforcement")) THEN "project"
  ELSE "foundations"

\* resource_type
ResourceType(milestone_type) == BucketOf(Lower(milestone_type))

\* key.lower() in skill.lower() or skill.lower() in key.lower(), both given
\* in lower case
EitherContains(key_lower, skill_lower) ==
  Contains(skill_lower, key_lower) \/ Contains(key_lower, skill_lower)

PartialMatch(key, skill) == EitherContains(Lower(key), Lower(skill))

RECURSIVE FirstPartialMatch_noBreak(_, _)
FirstPartialMatch_noBreak(keys, skill) ==
  IF keys = <<>> THEN skill
  ELSE LET later == FirstPartialMatch_noBreak(Tail(keys), skill)
       IN  IF later # skill THEN later
           ELSE IF PartialMatch(Head(keys), skill) THEN Head(keys)
           ELSE skill

RECURSIVE FirstPartialMatch(_, _)
\* for key in skill_resources.keys(): if ...: skill_key = key; break
\* a skill that matches no key stays as it is
FirstPartialMatch(keys, skill) ==
  IF keys = <<>> THEN skill
  ELSE IF PartialMatch(Head(keys), skill) THEN Head(keys)
  ELSE FirstPartialMatch(Tail(keys), skill)

\* skill_key after the exact lookup and the loop over the keys
SkillKey(skill) ==
  IF InList(skill, SkillKeys) THEN skill ELSE FirstPartialMatch(SkillKeys, skill)

\* resources, for the skill_key and the resource_type found
ResourcesOf(skill, skill_key, resource_type) ==
  IF InList(skill_key, SkillKeys)
  THEN skill_resources(skill_key, resource_type)
  ELSE default_resources(skill, resource_type)

get_learning_resources(skill, milestone_type) ==
  ResourcesOf(skill, SkillKey(skill), ResourceType(milestone_type))

(***************************************************************************)
(* /roadmap: weeks.                                                        *)
(***************************************************************************)
FastMinHours == 8

SlowMaxHours == 5

KeptTasks == 2

StretchReadingTask == "Optional advanced reading/practice for stretch goals"

ReflectTask == "Reflect: write notes on key learnings"

\* l[:n]
Take(l, n) == SubSeq(l, 1, IF Len(l) < n THEN Len(l) ELSE n)

AdjustTasks_keepsAll(tasks, pace, hours) ==
  IF pace = Chars("fast") /\ hours >= FastMinHours THEN Append(tasks, StretchReadingTask)
  ELSE IF pace = Chars("slow") \/ hours < SlowMaxHours THEN tasks \o <<ReflectTask>>
  ELSE tasks

\* base_tasks after the adjustment by pace and hours
AdjustTasks(tasks, pace, hours) ==
  IF pace = Chars("fast") /\ hours >= FastMinHours THEN Append(tasks, StretchReadingTask)
  ELSE IF pace = Chars("slow") \/ hours < SlowMaxHours THEN Take(tasks, KeptTasks) \o <<ReflectTask>>
  ELSE tasks

NextWeekNumber_fromZero(weeks) == Len(weeks)

\* "week": len(weeks) + 1
NextWeekNumber(weeks) == Len(weeks) + 1

\* weeks after add_week(milestone, tasks, skill); c holds the variables of
\* the enclosing handler that add_week reads (pace, hours)
add_week(weeks, milestone, tasks, skill, c) ==
  Append(weeks,
         [week |-> NextWeekNumber(weeks),
          milestone |-> milestone,
          tasks |-> AdjustTasks(tasks, c.pace, c.hours),
          learning_resources |->
            IF skill # "" THEN get_learning_resources(skill, milestone) ELSE <<>>])

FoundationsMilestone(skill) == "Foundations: " \o skill

ProjectMilestone(skill) == "Project: Build with " \o skill

ReinforcementMilestone(skill) == "Reinforcement: " \o skill

FoundationsTasks(skill) ==
  <<"Read the official " \o skill \o " docs and summarize key concepts",
    "Complete a beginner tutorial/course for " \o skill,
    "Practice: implement 2-3 small exercises using " \o skill>>

ProjectTasks(skill) ==
  <<"Design and build a mini app using " \o skill,
    "Add tests (unit/integration) and linting for the project",
    "Document learnings and challenges; push to a public repo">>

ReinforcementTasks(skill) ==
  <<"Targeted practice on weak areas in " \o skill \o " (based on interview)",
    "Implement a small feature addressing an identified gap in " \o skill,
    "Summarize lessons learned and update your notes">>

IsWeak_eitherWay(skill, weak_topics) ==
  \E i \in 1..Len(weak_topics) :
    \/ Contains(Lower(weak_topics[i]), Lower(skill))
    \/ Contains(Lower(skill), Lower(weak_topics[i]))

\* any(skill.lower() in t.lower() for t in weak_topics)
IsWeak(skill, weak_topics) ==
  \E i \in 1..Len(weak_topics) : Contains(Lower(weak_topics[i]), Lower(skill))

SkillWeeks_reinforcesFirst(weeks, skill, c) ==
  LET w0 == IF IsWeak(skill, c.weak_topics)
            THEN add_week(weeks, ReinforcementMilestone(skill), ReinforcementTasks(skill), skill, c)
            ELSE weeks
      w1 == add_week(w0, FoundationsMilestone(skill), FoundationsTasks(skill), skill, c)
  IN  add_week(w1, ProjectMilestone(skill), ProjectTasks(skill), skill, c)

\* one iteration of the loop over prioritized
SkillWeeks(weeks, skill, c) ==
  LET w1 == add_week(weeks, FoundationsMilestone(skill), FoundationsTasks(skill), skill, c)
      w2 == add_week(w1, ProjectMilestone(skill), ProjectTasks(skill), skill, c)
  IN  IF IsWeak(skill, c.weak_topics)
      THEN add_week(w2, ReinforcementMilestone(skill), ReinforcementTasks(skill), skill, c)
      ELSE w2

RECURSIVE AllSkillWeeks(_, _, _)
\* for skill in prioritized: ...
AllSkillWeeks(weeks, prio, c) ==
  IF prio = <<>> THEN weeks
  ELSE AllSkillWeeks(SkillWeeks(weeks, Head(prio), c), Tail(prio), c)

StretchScore == 70

ScopeDownScore == 50

StretchFeatureTask == "Stretch: add an advanced feature and write a postmortem"

ScopeDownTask == "Scope down and solidify fundamentals before expanding"

CapstoneMilestone_missingOrder(prio) ==
  "Capstone: Integrate " \o Join(", ", CleanMissing(req.missing))

CapstoneMilestone(prio) == "Capstone: Integrate " \o Join(", ", prio)

CapstoneTasks_flippedScopeDown(avg_score) ==
  <<"Plan a portfolio-level project combining the learned skills",
    "Implement core features, focusing on clean architecture",
    "Add basic CI (tests) and deploy locally or to a free tier">>
  \o (IF avg_score >= StretchScore THEN <<StretchFeatureTask>> ELSE <<>>)
  \o (IF avg_score >= ScopeDownScore THEN <<ScopeDownTask>> ELSE <<>>)

\* the task list passed to add_week for the Capstone week
CapstoneTasks(avg_score) ==
  <<"Plan a portfolio-level project combining the learned skills",
    "Implement core features, focusing on clean architecture",
    "Add basic CI (tests) and deploy locally or to a free tier">>
  \o (IF avg_score >= StretchScore THEN <<StretchFeatureTask>> ELSE <<>>)
  \o (IF avg_score < ScopeDownScore THEN <<ScopeDownTask>> ELSE <<>>)

capstone_resources ==
  <<Res("Portfolio Project Ideas",
        "https://github.com/practical-tutorials/project-based-learning",
        "project-ideas"),
    Res("Clean Architecture Guide",
        "https://blog.cleancoder.com/uncle-bob/2012/08/13/the-clean-architecture.html",
        "guide"),
    Res("CI/CD Best Practices",
        "https://docs.github.com/en/actions/learn-github-actions",
        "documentation")>>

SetLastResources_first(weeks, resources) ==
  IF weeks = <<>> THEN weeks
  ELSE [weeks EXCEPT ![1].learning_resources = resources]

\* if weeks: weeks[-1]["learning_resources"] = resources
SetLastResources(weeks, resources) ==
  IF weeks = <<>> THEN weeks
  ELSE [weeks EXCEPT ![Len(weeks)].learning_resources = resources]

\* weeks after the Capstone week is added and its resources are set
CapstoneWeek(weeks, prio, c) ==
  SetLastResources(
    add_week(weeks, CapstoneMilestone(prio), CapstoneTasks(c.avg_score), "", c),
    capstone_resources)

ShowcaseCount == 3

Showcase_all(strength_topics) ==
  IF strength_topics # <<>> THEN Join(", ", strength_topics)
  ELSE "key concepts"

\* showcase = ", ".join(strength_topics[:3]) if strength_topics else "key concepts"
Showcase(strength_topics) ==
  IF strength_topics # <<>> THEN Join(", ", Take(strength_topics, ShowcaseCount))
  ELSE "key concepts"

AssessmentMilestone == "Assessment & Reflection"

AssessmentTasks(strength_topics) ==
  <<"Create a README and short demo video of the capstone",
    "Write a blog/notes highlighting " \o Showcase(strength_topics),
    "Prepare interview stories around the project (problem, approach, impact)">>

assessment_resources ==
  <<Res("How to Write a Great README", "https://www.makeareadme.com/", "guide"),
    Res("Creating Demo Videos", "https://www.loom.com/", "tool"),
    Res("Technical Interview Stories",
        "https://www.pramp.com/blog/how-to-tell-your-story-during-a-technical-interview",
        "guide")>>

\* weeks after the Assessment week is added and its resources are set
AssessmentWeek(weeks, c) ==
  SetLastResources(
    add_week(weeks, AssessmentMilestone, AssessmentTasks(c.strength_topics), "", c),
    assessment_resources)

\* the variables of the handler after lines 80-108
Context(r) ==
  [missing |-> CleanMissing(r.missing),
   pace |-> Pace(r.preferences),
   hours |-> Hours(r.preferences),
   prioritized |-> Prioritized(CleanMissing(r.missing), Focus(r.preferences)),
   weak_topics |-> WeakTopics(r.interview),
   strength_topics |-> StrengthTopics(r.interview),
   avg_score |-> AvgScore(r.interview)]

\* the list weeks at the return of line 363
PlanWeeks(c) ==
  AssessmentWeek(CapstoneWeek(AllSkillWeeks(<<>>, c.prioritized, c), c.prioritized, c), c)

Returned(weeks) == [status |-> "ok", roadmap |-> weeks]

\* the handler ends with an exception: no body is returned
Raised == [status |-> "error", roadmap |-> <<>>]

roadmap_result_readsFirst(r) ==
  IF PrefsRaises(r.preferences) \/ InterviewRaises(r.interview) THEN Raised
  ELSE IF CleanMissing(r.missing) = <<>> THEN Returned(<<>>)
  ELSE Returned(PlanWeeks(Context(r)))

\* the outcome of the handler on request r
roadmap_result(r) ==
  IF CleanMissing(r.missing) = <<>> THEN Returned(<<>>)
  ELSE IF PrefsRaises(r.preferences) \/ InterviewRaises(r.interview) THEN Raised
  ELSE Returned(PlanWeeks(Context(r)))

\* the local list prioritized when the handler ends: still unassigned (shown
\* as the empty list) when the handler left before line 95
prioritized_at_end(r) ==
  IF CleanMissing(r.missing) = <<>> \/ PrefsRaises(r.preferences) THEN <<>>
  ELSE Prioritized(CleanMissing(r.missing), Focus(r.preferences))

(***************************************************************************)
(* The requests explored.                                                  *)
(***************************************************************************)
MissingEntries == {PyStr("React"), PyStr(" Node.js "), PyStr("Express"), PyStr("Rust")}

MissingLists == UNION {[1..n -> MissingEntries] : n \in 0..MaxMissing}

FocusInputs ==
  {PyNone,
   PyList(<<PyStr("Backend"), PyStr("frontend")>>),
   PyList(<<PyStr("frontend"), PyInt(1), PyStr("devops"), PyStr("frontend")>>)}

PaceInputs == {PyNone, PyStr("fast"), PyStr("slow"), PyInt(2)}

HoursInputs == {PyInt(0), PyInt(-1), PyInt(4), PyInt(5), PyInt(8)}

WeakInputs ==
  {PyNone,
   PyList(<<PyStr("Rea"), PyInt(5)>>),
   PyList(<<PyStr("REACT hooks"), PyStr("Rea")>>)}

StrengthInputs ==
  {PyList(<<PyStr("APIs"), PyInt(4), PyStr("Testing"), PyStr("SQL"), PyStr("Git")>>)}

AvgInputs == {PyInt(49), PyInt(50), PyInt(69), PyInt(70)}

\* preferences: None, or a dict with the three keys the handler reads
NoPreferences ==
  [present |-> FALSE, focus |-> PyNone, pace |-> PyNone, availability_hours |-> PyNone]

PreferencesInputs ==
  {NoPreferences} \cup
  [present : {TRUE}, focus : FocusInputs, pace : PaceInputs, availability_hours : HoursInputs]

\* interview: None, or a dict with the three keys the handler reads
NoInterview ==
  [present |-> FALSE, weak_topics |-> PyNone, strength_topics |-> PyNone, avg_score |-> PyNone]

InterviewInputs ==
  {NoInterview} \cup
  [present : {TRUE}, weak_topics : WeakInputs, strength_topics : StrengthInputs,
   avg_score : AvgInputs]

\* RoadmapRequest
Requests == [missing : MissingLists, preferences : PreferencesInputs, interview : InterviewInputs]

NoResponse == [status |-> "none", roadmap |-> <<>>]

(***************************************************************************)
(* The state machine: a request is received, the handler answers it.       *)
(***************************************************************************)
\* no invocation other than the single one is in flight
NoCalls == calls = <<>> /\ weeksOf = <<>> /\ prioOf = <<>>

Init ==
  /\ req \in Requests
  /\ resp = NoResponse
  /\ prioritized = <<>>
  /\ pc = "received"
  /\ NoCalls

\* POST /roadmap
roadmap ==
  /\ pc = "received"
  /\ resp' = roadmap_result(req)
  /\ prioritized' = prioritized_at_end(req)
  /\ pc' = "responded"
  /\ UNCHANGED <<req, calls, weeksOf, prioOf>>

Next == roadmap

Spec == Init /\ [][Next]_vars

(***************************************************************************)
(* Requests at the edges of the input space: skills outside the catalog,   *)
(* blank entries, empty dicts, varied strength topics.                     *)
(***************************************************************************)
EdgeMissingEntries ==
  {PyStr("React"), PyStr("Rust"), PyStr("React Native"), PyStr("ML Foundations"),
   PyStr(" "), PyStr("")}

EdgeMissingLists == UNION {[1..n -> EdgeMissingEntries] : n \in 0..MaxMissing}

\* preferences = {}
EmptyPreferences ==
  [present |-> TRUE, focus |-> PyNone, pace |-> PyNone, availability_hours |-> PyNone]

EdgePreferencesInputs ==
  {NoPreferences,
   EmptyPreferences,
   [EmptyPreferences EXCEPT !.pace = PyStr("slow")],
   [EmptyPreferences EXCEPT !.pace = PyStr("fast"), !.availability_hours = PyInt(8)]}

\* interview = {}
EmptyInterview ==
  [present |-> TRUE, weak_topics |-> PyNone, strength_topics |-> PyNone, avg_score |-> PyNone]

EdgeWeakInputs ==
  {PyNone, PyList(<<PyStr("ml foundations basics"), PyStr("Rust ownership")>>)}

EdgeStrengthInputs ==
  {PyNone,
   PyList(<<>>),
   PyList(<<PyInt(4)>>),
   PyList(<<PyStr("")>>),
   PyList(<<PyStr("APIs")>>),
   PyList(<<PyStr("key concepts")>>),
   PyStr("go"),
   PyList(<<PyInt(4), PyStr("APIs"), PyInt(1), PyStr("SQL")>>),
   PyList(<<PyStr("APIs"), PyInt(4), PyStr("Testing"), PyStr("SQL"), PyStr("Git")>>)}

EdgeInterviewInputs ==
  {NoInterview} \cup
  [present : {TRUE}, weak_topics : EdgeWeakInputs, strength_topics : EdgeStrengthInputs,
   avg_score : {PyNone}]

EdgeRequests ==
  [missing : EdgeMissingLists, preferences : EdgePreferencesInputs,
   interview : EdgeInterviewInputs]

EdgeInit ==
  /\ req \in EdgeRequests
  /\ resp = NoResponse
  /\ prioritized = <<>>
  /\ pc = "received"
  /\ NoCalls

EdgeSpec == EdgeInit /\ [][Next]_vars

(***************************************************************************)
(* Requests over the whole range of interview scores.                      *)
(***************************************************************************)
MaxScore == 101

\* the avg_score values explored: the scores 0..100 and one value beyond
\* each end
ScoreRange == (0 - 1)..MaxScore

\* the pace in another case, the hours as text, a pace with a letter whose
\* lower-case letter no string constant holds (U+10A0), and a focus that is
\* a string with a character above U+FFFF (U+30080)
ScorePreferencesInputs ==
  {NoPreferences,
   [EmptyPreferences EXCEPT !.pace = PyStr("slow")],
   [EmptyPreferences EXCEPT !.pace = PyStr("fast"), !.availability_hours = PyInt(8)],
   [EmptyPreferences EXCEPT !.pace = PyStr("fast"), !.availability_hours = PyStr("1_0")],
   [EmptyPreferences EXCEPT !.pace = PyStr("FAST"), !.availability_hours = PyStr(" 8")],
   [EmptyPreferences EXCEPT !.pace = PyStr("Fast Ⴀ")],
   [EmptyPreferences EXCEPT !.focus = PyStr("a𰂀")]}

\* numerals given as text: with an underscore, padded with blanks, after a
\* vertical tab, between a no-break space and a next-line character, in
\* Bengali digits, and three int() rejects (a doubled underscore, a trailing
\* unit separator, a superscript two)
ScoreTexts ==
  {"7_5", " 49 ", UnitAt(ControlSpaces, 1) \o "70", " 50", "৬৯",
   "4__9", "70" \o UnitAt(ControlSpaces, 5), "²7"}

\* one interview gives no score and strength_topics as a string whose first
\* character lies above U+FFFF (U+30080)
ScoreInterviewInputs ==
  {NoInterview, [EmptyInterview EXCEPT !.strength_topics = PyStr("𰂀b")]}
    \cup {[EmptyInterview EXCEPT !.avg_score = PyInt(a)] : a \in ScoreRange}
    \cup {[EmptyInterview EXCEPT !.avg_score = PyStr(t)] : t \in ScoreTexts}

ScoreRequests ==
  [missing : {<<PyStr("React")>>, <<PyStr("Rust"), PyStr("React")>>},
   preferences : ScorePreferencesInputs,
   interview : ScoreInterviewInputs]

ScoreInit ==
  /\ req \in ScoreRequests
  /\ resp = NoResponse
  /\ prioritized = <<>>
  /\ pc = "received"
  /\ NoCalls

ScoreSpec == ScoreInit /\ [][Next]_vars

(***************************************************************************)
(* Several invocations of /roadmap in flight together.  Each invocation    *)
(* runs the handler statement group by statement group; the groups of      *)
(* different invocations interleave in any order.  The lists the handler   *)
(* creates and then appends to (prioritized, line 95; weeks, line 110)     *)
(* live in cells: weeksOf and prioOf give the content of each cell.  The   *)
(* other locals are bound once to values that are never modified.          *)
(***************************************************************************)
Calls == 1..MaxCalls

PrioCell_shared(i) == 1

\* prioritized: list[str] = [] creates a list of the invocation's own
PrioCell(i) == i

WeeksCell_shared(i) == 1

\* weeks: list[dict] = [] creates a list of the invocation's own
WeeksCell(i) == i

\* the requests in flight: React in the focus area, and Élixir after a
\* no-break space, flagged by a weak topic in upper case
ConcRequests ==
  <<[missing |-> <<PyStr("React")>>,
     preferences |-> [EmptyPreferences EXCEPT !.focus = PyList(<<PyStr("Frontend")>>)],
     interview |-> NoInterview],
    [missing |-> <<PyStr(" Élixir")>>,
     preferences |-> [EmptyPreferences EXCEPT !.pace = PyStr("SLOW"),
                                              !.availability_hours = PyStr(" 4")],
     interview |-> [EmptyInterview EXCEPT !.weak_topics = PyList(<<PyStr("ÉLIXIR basics")>>),
                                          !.avg_score = PyStr("7_5")]]>>

\* every request is in flight at least once, and the invocations are numbered
\* in the order of their requests
ConcAssignments ==
  {f \in [Calls -> 1..Len(ConcRequests)] :
     /\ \A r \in 1..Len(ConcRequests) : \E c \in Calls : f[c] = r
     /\ \A c, d \in Calls : c <= d => f[c] <= f[d]}

\* an invocation that has received request r and has run no statement yet
Received(r) ==
  [req |-> r, pc |-> "received", resp |-> NoResponse,
   missing |-> <<>>, focus |-> <<>>, pace |-> <<>>, hours |-> 0,
   weak_topics |-> <<>>, strength_topics |-> <<>>, avg_score |-> 0,
   k |-> 0, skill |-> ""]

ConcInit ==
  /\ \E f \in ConcAssignments : calls = [c \in Calls |-> Received(ConcRequests[f[c]])]
  /\ weeksOf = [c \in Calls |-> <<>>]
  /\ prioOf = [c \in Calls |-> <<>>]
  /\ req = [missing |-> <<>>, preferences |-> NoPreferences, interview |-> NoInterview]
  /\ resp = NoResponse
  /\ prioritized = <<>>
  /\ pc = "idle"

\* the variables of the single invocation are not in use
SingleIdle == UNCHANGED <<req, resp, prioritized, pc>>

\* lines 76-78
Clean(i) ==
  /\ calls[i].pc = "received"
  /\ LET m == CleanMissing(calls[i].req.missing)
     IN  calls' = [calls EXCEPT ![i] =
                     IF m = <<>>
                     THEN [@ EXCEPT !.missing = m, !.resp = Returned(<<>>), !.pc = "responded"]
                     ELSE [@ EXCEPT !.missing = m, !.pc = "preferences"]]
  /\ UNCHANGED <<weeksOf, prioOf>>
  /\ SingleIdle

\* lines 80-95
ReadPreferences(i) ==
  /\ calls[i].pc = "preferences"
  /\ IF PrefsRaises(calls[i].req.preferences)
     THEN /\ calls' = [calls EXCEPT ![i] = [@ EXCEPT !.resp = Raised, !.pc = "responded"]]
          /\ UNCHANGED prioOf
     ELSE /\ calls' = [calls EXCEPT ![i] =
                         [@ EXCEPT !.focus = Focus(calls[i].req.preferences),
                                   !.pace = Pace(calls[i].req.preferences),
                                   !.hours = Hours(calls[i].req.preferences),
                                   !.pc = "focus"]]
          /\ prioOf' = [prioOf EXCEPT ![PrioCell(i)] = <<>>]
  /\ UNCHANGED weeksOf
  /\ SingleIdle

\* lines 96-99
PrioritizeFocus(i) ==
  /\ calls[i].pc = "focus"
  /\ prioOf' = [prioOf EXCEPT ![PrioCell(i)] = AppendFocus(@, calls[i].focus, calls[i].missing)]
  /\ calls' = [calls EXCEPT ![i].pc = "remaining"]
  /\ UNCHANGED weeksOf
  /\ SingleIdle

\* lines 101-103
PrioritizeRemaining(i) ==
  /\ calls[i].pc = "remaining"
  /\ prioOf' = [prioOf EXCEPT ![PrioCell(i)] = AppendRemaining(@, calls[i].missing)]
  /\ calls' = [calls EXCEPT ![i].pc = "interview"]
  /\ UNCHANGED weeksOf
  /\ SingleIdle

\* lines 106-110
ReadInterview(i) ==
  /\ calls[i].pc = "interview"
  /\ IF InterviewRaises(calls[i].req.interview)
     THEN /\ calls' = [calls EXCEPT ![i] = [@ EXCEPT !.resp = Raised, !.pc = "responded"]]
          /\ UNCHANGED weeksOf
     ELSE /\ calls' = [calls EXCEPT ![i] =
                         [@ EXCEPT !.weak_topics = WeakTopics(calls[i].req.interview),
                                   !.strength_topics = StrengthTopics(calls[i].req.interview),
                                   !.avg_score = AvgScore(calls[i].req.interview),
                                   !.k = 1,
                                   !.pc = "loop"]]
          /\ weeksOf' = [weeksOf EXCEPT ![WeeksCell(i)] = <<>>]
  /\ UNCHANGED prioOf
  /\ SingleIdle

\* the loop of line 290 has a next skill: the list is read at each turn
InLoop(i) == calls[i].k <= Len(prioOf[PrioCell(i)])

\* lines 290-299: the loop binds skill and adds its Foundations week
AddFoundations(i) ==
  /\ calls[i].pc = "loop"
  /\ InLoop(i)
  /\ LET skill == prioOf[PrioCell(i)][calls[i].k]
     IN  /\ weeksOf' = [weeksOf EXCEPT ![WeeksCell(i)] =
                          add_week(@, FoundationsMilestone(skill), FoundationsTasks(skill),
                                   skill, calls[i])]
         /\ calls' = [calls EXCEPT ![i] = [@ EXCEPT !.skill = skill, !.pc = "project"]]
  /\ UNCHANGED prioOf
  /\ SingleIdle

\* lines 300-310
AddProject(i) ==
  /\ calls[i].pc = "project"
  /\ LET skill == calls[i].skill
     IN  /\ weeksOf' = [weeksOf EXCEPT ![WeeksCell(i)] =
                          add_week(@, ProjectMilestone(skill), ProjectTasks(skill),
                                   skill, calls[i])]
         /\ calls' = [calls EXCEPT ![i] =
                        IF IsWeak(skill, calls[i].weak_topics)
                        THEN [@ EXCEPT !.pc = "reinforcement"]
                        ELSE [@ EXCEPT !.pc = "loop", !.k = @ + 1]]
  /\ UNCHANGED prioOf
  /\ SingleIdle

\* lines 311-319
AddReinforcement(i) ==
  /\ calls[i].pc = "reinforcement"
  /\ LET skill == calls[i].skill
     IN  weeksOf' = [weeksOf EXCEPT ![WeeksCell(i)] =
                       add_week(@, ReinforcementMilestone(skill), ReinforcementTasks(skill),
                                skill, calls[i])]
  /\ calls' = [calls EXCEPT ![i] = [@ EXCEPT !.pc = "loop", !.k = @ + 1]]
  /\ UNCHANGED prioOf
  /\ SingleIdle

\* lines 322-339, once the loop of line 290 is over
AddCapstone(i) ==
  /\ calls[i].pc = "loop"
  /\ ~InLoop(i)
  /\ weeksOf' = [weeksOf EXCEPT ![WeeksCell(i)] =
                   add_week(@, CapstoneMilestone(prioOf[PrioCell(i)]),
                            CapstoneTasks(calls[i].avg_score), "", calls[i])]
  /\ calls' = [calls EXCEPT ![i].pc = "capstone_resources"]
  /\ UNCHANGED prioOf
  /\ SingleIdle

\* lines 340-341
SetCapstoneResources(i) ==
  /\ calls[i].pc = "capstone_resources"
  /\ weeksOf' = [weeksOf EXCEPT ![WeeksCell(i)] = SetLastResources(@, capstone_resources)]
  /\ calls' = [calls EXCEPT ![i].pc = "assessment"]
  /\ UNCHANGED prioOf
  /\ SingleIdle

\* lines 344-359
AddAssessment(i) ==
  /\ calls[i].pc = "assessment"
  /\ weeksOf' = [weeksOf EXCEPT ![WeeksCell(i)] =
                   add_week(@, AssessmentMilestone,
                            AssessmentTasks(calls[i].strength_topics), "", calls[i])]
  /\ calls' = [calls EXCEPT ![i].pc = "assessment_resources"]
  /\ UNCHANGED prioOf
  /\ SingleIdle

\* lines 360-361
SetAssessmentResources(i) ==
  /\ calls[i].pc = "assessment_resources"
  /\ weeksOf' = [weeksOf EXCEPT ![WeeksCell(i)] = SetLastResources(@, assessment_resources)]
  /\ calls' = [calls EXCEPT ![i].pc = "return"]
  /\ UNCHANGED prioOf
  /\ SingleIdle

\* line 363
Return(i) ==
  /\ calls[i].pc = "return"
  /\ calls' = [calls EXCEPT ![i] =
                 [@ EXCEPT !.resp = Returned(weeksOf[WeeksCell(i)]), !.pc = "responded"]]
  /\ UNCHANGED <<weeksOf, prioOf>>
  /\ SingleIdle

\* one statement group of one invocation
ConcNext ==
  \E i \in Calls :
    \/ Clean(i)
    \/ ReadPreferences(i)
    \/ PrioritizeFocus(i)
    \/ PrioritizeRemaining(i)
    \/ ReadInterview(i)
    \/ AddFoundations(i)
    \/ AddProject(i)
    \/ AddReinforcement(i)
    \/ AddCapstone(i)
    \/ SetCapstoneResources(i)
    \/ AddAssessment(i)
    \/ SetAssessmentResources(i)
    \/ Return(i)

ConcSpec == ConcInit /\ [][ConcNext]_vars

(***************************************************************************)
(* Requests for one skill each, over skill names that are catalog keys,    *)
(* that match one or several keys by substring, and that match none.       *)
(***************************************************************************)
ResourceSkills ==
  {SkillKeys[k] : k \in 1..Len(SkillKeys)} \cup
  {"react", "React Native", "JS", "Mongo", "Docker AWS", "NLP with Python", "o",
   "Rust", "Go", "Kotlin", "C#", "SQL", "Élixir", "ÉREACT", " Python"}

ResourceRequests ==
  [missing : {<<PyStr(sk)>> : sk \in ResourceSkills},
   preferences : ScorePreferencesInputs,
   interview : {NoInterview, EmptyInterview}]

ResourceInit ==
  /\ req \in ResourceRequests
  /\ resp = NoResponse
  /\ prioritized = <<>>
  /\ pc = "received"
  /\ NoCalls

ResourceSpec == ResourceInit /\ [][Next]_vars

\* requests whose focus names areas of area_map and tags that are no keys,
\* one of them with the letter U+0181, whose lower-case letter no string
\* constant holds
FocusMissingEntries ==
  {PyStr("React"), PyStr("TailwindCSS"), PyStr("Docker"), PyStr("AWS"), PyStr("Rust"),
   PyStr(UnitAt(ControlSpaces, 1) \o "React" \o UnitAt(ControlSpaces, 5)),
   PyStr(" Docker")}

FocusMissingLists == UNION {[1..n -> FocusMissingEntries] : n \in 0..MaxMissing}

FocusTagInputs ==
  {PyNone,
   PyList(<<PyStr("devops")>>),
   PyList(<<PyStr("SÉCURITÉ"), PyStr("devops")>>),
   PyList(<<PyStr("Cloud")>>),
   PyList(<<PyStr("ml")>>),
   PyList(<<PyStr("frontend"), PyStr("cloud")>>),
   PyList(<<PyStr("cloud"), PyStr("devops"), PyStr("frontend")>>),
   PyList(<<PyStr("devops"), PyStr("cloud"), PyStr("cloud")>>),
   PyList(<<PyStr("Ɓack"), PyStr("CLOUD")>>)}

FocusRequests ==
  [missing : FocusMissingLists,
   preferences : {[EmptyPreferences EXCEPT !.focus = f] : f \in FocusTagInputs},
   interview : {NoInterview,
                [EmptyInterview EXCEPT !.weak_topics = PyList(<<PyStr("react")>>)]}]

FocusInit ==
  /\ req \in FocusRequests
  /\ resp = NoResponse
  /\ prioritized = <<>>
  /\ pc = "received"
  /\ NoCalls

FocusSpec == FocusInit /\ [][Next]_vars

(***************************************************************************)
(* Requests that vary the weak topics: topics in another case than the     *)
(* skill, with letters outside ASCII, with a capital sigma at the end of a *)
(* word, with a letter whose lower-case letter no string constant holds    *)
(* (U+0181), fragments of a skill name, entries that are no strings, and   *)
(* values of weak_topics that are strings, one with a character above     *)
(* U+FFFF (U+30080), or no lists.                                          *)
(***************************************************************************)
WeakMissingEntries ==
  {PyStr("React"), PyStr("Élixir"), PyStr("ΟΔΟΣ"), PyStr("o"), PyStr("Ɓx"), PyStr("𰂀")}

WeakMissingLists == UNION {[1..n -> WeakMissingEntries] : n \in 0..MaxMissing}

WeakTopicInputs ==
  {PyNone,
   PyList(<<>>),
   PyList(<<PyStr("Rea"), PyInt(5)>>),
   PyList(<<PyStr("REACT hooks"), PyStr("Rea")>>),
   PyList(<<PyStr("élixir basics")>>),
   PyList(<<PyInt(1), PyStr("ÉLIXIR")>>),
   PyList(<<PyStr("οδος")>>),
   PyList(<<PyStr("οδοσ")>>),
   PyList(<<PyStr("ΟΔΟΣ ΣΟΦΙΑ")>>),
   PyList(<<PyStr("ƁX basics")>>),
   PyStr("Docker"),
   PyStr("a𰂀"),
   PyStr(""),
   PyInt(0),
   PyInt(3)}

WeakRequests ==
  [missing : WeakMissingLists,
   preferences : {NoPreferences},
   interview : {NoInterview} \cup
               {[EmptyInterview EXCEPT !.weak_topics = w] : w \in WeakTopicInputs}]

WeakInit ==
  /\ req \in WeakRequests
  /\ resp = NoResponse
  /\ prioritized = <<>>
  /\ pc = "received"
  /\ NoCalls

WeakSpec == WeakInit /\ [][Next]_vars

(***************************************************************************)
(* Requests whose skills are no keys of the catalog: one with a letter     *)
(* outside ASCII that matches no key, one that contains a key, one that    *)
(* contains the word foundations; with and without weak topics.            *)
(***************************************************************************)
UnmatchedMissingEntries ==
  {PyStr("React"), PyStr("Élixir"), PyStr("React Native"), PyStr("ML Foundations")}

UnmatchedMissingLists == UNION {[1..n -> UnmatchedMissingEntries] : n \in 0..MaxMissing}

UnmatchedWeakInputs ==
  {PyNone, PyList(<<PyStr("ml foundations basics"), PyStr("élixir basics")>>)}

UnmatchedRequests ==
  [missing : UnmatchedMissingLists,
   preferences : EdgePreferencesInputs,
   interview : {NoInterview} \cup
               {[EmptyInterview EXCEPT !.weak_topics = w] : w \in UnmatchedWeakInputs}]

UnmatchedInit ==
  /\ req \in UnmatchedRequests
  /\ resp = NoResponse
  /\ prioritized = <<>>
  /\ pc = "received"
  /\ NoCalls

UnmatchedSpec == UnmatchedInit /\ [][Next]_vars

(***************************************************************************)
(* generate_detailed_resume_questions and generate_role_based_questions.   *)
(*                                                                         *)
(* resume_analysis is a dict: a function whose domain is the set of keys   *)
(* that are present.  Lists are sequences of strings, roleFit and score    *)
(* are integers.  A call is one step: pc goes from "detailed_called" to    *)
(* "detailed_returned" and resp holds the returned questions.              *)
(***************************************************************************)
\* resume_analysis.get(k, default)
AnalysisGet(d, k, default) == IF k \in DOMAIN d THEN d[k] ELSE default

TopSkillsCount == 3

KeyMissingCount == 2

ShownTopicsCount == 2

LowRoleFit == 70

HighRoleFit == 85

LowResumeScore == 70

EnoughQuestions == 3

MaxQuestions == 6

\* the deep-dive question of one detected skill: the first branch whose
\* needle occurs in the lowered skill, none when no branch matches
SkillQuestion(skill) ==
  LET skill_lower == Lower(skill) IN
  IF Contains(skill_lower, Chars("react")) THEN
    <<"I see you have " \o skill \o " experience on your resume. Can you describe a complex React application you've built and explain your approach to state management and component optimization?">>
  ELSE IF Contains(skill_lower, Chars("node")) \/ Contains(skill_lower, Chars("javascript")) THEN
    <<"Your resume shows " \o skill \o " expertise. Can you walk me through how you've handled scalability challenges in Node.js applications and your approach to asynchronous programming?">>
  ELSE IF Contains(skill_lower, Chars("python")) THEN
    <<"I notice " \o skill \o " on your resume. Can you describe a Python project where you had to optimize performance and explain your debugging process?">>
  ELSE IF Contains(skill_lower, Chars("database")) \/ Contains(skill_lower, Chars("sql"))
            \/ Contains(skill_lower, Chars("mongodb")) THEN
    <<"Your " \o skill \o " experience is evident on your resume. How do you approach database schema design and what strategies do you use for query optimization?">>
  ELSE IF Contains(skill_lower, Chars("docker")) \/ Contains(skill_lower, Chars("kubernetes")) THEN
    <<"I see " \o skill \o " experience listed. Can you explain how you've implemented containerization in production environments and handled deployment challenges?">>
  ELSE IF Contains(skill_lower, Chars("aws")) \/ Contains(skill_lower, Chars("cloud")) THEN
    <<"Your resume mentions " \o skill \o ". How do you design cloud architectures for scalability and what security practices do you implement?">>
  ELSE <<>>

RECURSIVE SkillQuestions(_)
\* the loop over top_skills
SkillQuestions(top_skills) ==
  IF top_skills = <<>> THEN <<>>
  ELSE SkillQuestion(Head(top_skills)) \o SkillQuestions(Tail(top_skills))

MissingQuestion(missing_skill) ==
  "I notice " \o missing_skill \o " isn't prominently featured on your resume but is important for this role. How would you approach learning " \o missing_skill \o " and integrating it into your current skill set?"

\* the loop over key_missing
MissingQuestions(key_missing) ==
  [i \in 1..Len(key_missing) |-> MissingQuestion(key_missing[i])]

StrengthQuestions(strengths) ==
  IF strengths = <<>> THEN <<>>
  ELSE <<"Your resume highlights strengths in " \o Join(", ", Take(strengths, ShownTopicsCount)) \o ". Can you provide a specific example of how you've leveraged these strengths to solve a complex technical problem?">>

WeaknessQuestions(weaknesses) ==
  IF weaknesses = <<>> THEN <<>>
  ELSE <<"Looking at areas for growth like " \o Join(", ", Take(weaknesses, ShownTopicsCount)) \o ", how do you typically approach improving in areas where you want to develop further?">>

RoleFitQuestions(role_fit) ==
  IF role_fit < LowRoleFit THEN
    <<"Based on your background, what aspects of this role excite you most, and how do you plan to bridge any skill gaps to excel in this position?">>
  ELSE IF role_fit >= HighRoleFit THEN
    <<"Your background seems well-aligned with this role. What unique perspective or advanced techniques would you bring to elevate the team's technical capabilities?">>
  ELSE <<>>

ResumeScoreQuestions(resume_score) ==
  IF resume_score < LowResumeScore THEN
    <<"What recent projects or learning experiences have you had that might not be fully reflected on your resume but demonstrate your growth as a developer?">>
  ELSE <<>>

BehavioralQuestions(detected_skills) ==
  IF detected_skills = <<>> THEN <<>>
  ELSE <<"Describe a time when you had to learn a new technology quickly to complement your " \o detected_skills[1] \o " skills. How did you approach the learning process?">>

generate_role_based_questions(role) ==
  IF Contains(role, "full") /\ Contains(role, "stack") THEN
    <<"Explain how React's component state and hooks work together to manage UI state.",
      "Describe the Node.js event loop and how it impacts asynchronous code.",
      "How would you design a REST API with Express and MongoDB, including schema considerations?",
      "What are Docker containers and images, and how would you containerize a Node/React app?",
      "How do you secure AWS resources (e.g., S3, EC2) using IAM best practices?">>
  ELSE IF Contains(role, "frontend") THEN
    <<"What are React hooks and when would you use useEffect vs useMemo?",
      "How do you optimize performance in a large React app (code splitting, memoization)?",
      "Explain how CSS frameworks like TailwindCSS can improve developer productivity.">>
  ELSE IF Contains(role, "backend") THEN
    <<"Explain the Node.js event loop and non-blocking I/O.",
      "How would you design scalable APIs with Express, including auth and rate limiting?",
      "Discuss database indexing strategies in MongoDB to improve query performance.">>
  ELSE
    <<"Tell me about a project you built and what you learned.",
      "How do you approach debugging complex issues?",
      "Describe how you collaborate in a team setting.">>

\* the questions collected from the analysis, before the fallback
AnalysisQuestions(resume_analysis) ==
  LET detected_skills == AnalysisGet(resume_analysis, "detectedSkills", <<>>)
      missing_skills == AnalysisGet(resume_analysis, "missingSkills", <<>>)
      strengths == AnalysisGet(resume_analysis, "strengths", <<>>)
      weaknesses == AnalysisGet(resume_analysis, "weaknesses", <<>>)
      role_fit == AnalysisGet(resume_analysis, "roleFit", 0)
      resume_score == AnalysisGet(resume_analysis, "score", 0)
  IN SkillQuestions(Take(detected_skills, TopSkillsCount))
       \o MissingQuestions(Take(missing_skills, KeyMissingCount))
       \o StrengthQuestions(strengths)
       \o WeaknessQuestions(weaknesses)
       \o RoleFitQuestions(role_fit)
       \o ResumeScoreQuestions(resume_score)
       \o BehavioralQuestions(detected_skills)

\* the role-based questions are appended only to fewer than 3 questions
WithFallback(questions, role) ==
  IF Len(questions) < EnoughQuestions THEN questions \o generate_role_based_questions(role)
  ELSE questions

generate_detailed_resume_questions(resume_text, role, skills, resume_analysis) ==
  Take(WithFallback(AnalysisQuestions(resume_analysis), role), MaxQuestions)

\* a dict entry that may be absent
Optional(k, values) == {<<>>} \cup {k :> v : v \in values}

DetectedInputs ==
  {<<>>, <<"React">>, <<"Go">>,
   <<"React.js", "NodeJS", "Python", "AWS">>,
   <<"PostgreSQL", "Kubernetes", "Google Cloud">>,
   <<"JavaScript", "MongoDB", "Docker">>}

MissingSkillInputs == {<<>>, <<"Docker">>, <<"Docker", "AWS", "NLP">>}

StrengthsInputs == {<<"APIs">>, <<"APIs", "Testing", "SQL">>}

WeaknessesInputs == {<<"Testing">>}

RoleFitInputs == {69, 70, 84, 85}

ResumeScoreInputs == {69, 70}

AnalysisInputs ==
  {a @@ b @@ c @@ d @@ e @@ f :
     a \in Optional("detectedSkills", DetectedInputs),
     b \in Optional("missingSkills", MissingSkillInputs),
     c \in Optional("strengths", StrengthsInputs),
     d \in Optional("weaknesses", WeaknessesInputs),
     e \in Optional("roleFit", RoleFitInputs),
     f \in Optional("score", ResumeScoreInputs)}

RoleInputs ==
  {"full stack developer", "frontend developer", "backend developer", "data scientist"}

QuestionCalls ==
  [resume_text : {"Built web apps"},
   role : RoleInputs,
   skills : {<<>>, <<"React">>},
   resume_analysis : AnalysisInputs]

QuestionInit ==
  /\ req \in QuestionCalls
  /\ resp = NoResponse
  /\ prioritized = <<>>
  /\ pc = "detailed_called"
  /\ NoCalls

DetailedQuestions ==
  /\ pc = "detailed_called"
  /\ resp' = [status |-> "ok",
              questions |-> generate_detailed_resume_questions(
                              req.resume_text, req.role, req.skills, req.resume_analysis)]
  /\ pc' = "detailed_returned"
  /\ UNCHANGED <<req, prioritized, calls, weeksOf, prioOf>>

QuestionNext == DetailedQuestions

QuestionSpec == QuestionInit /\ [][QuestionNext]_vars

(***************************************************************************)
(* /gap: the skills of the role's desired list the user does not have.     *)
(*                                                                         *)
(* A request is [skills, target_role]; the handler runs as one step, pc    *)
(* goes from "gap_received" to "gap_responded" and resp holds the reply.   *)
(***************************************************************************)
\* role = (req.target_role or "").lower()
GapRole(target_role) == Lower(target_role)

desired_mlFirst(role) ==
  IF Contains(role, Chars("ml")) THEN <<"Python", "NLP", "Docker", "AWS">>
  ELSE IF Contains(role, Chars("frontend")) THEN <<"React", "TailwindCSS">>
  ELSE IF Contains(role, Chars("backend")) THEN <<"Node.js", "Express", "MongoDB", "Docker">>
  ELSE IF (Contains(role, Chars("full")) /\ Contains(role, Chars("stack"))) \/ Contains(role, Chars("full-stack")) THEN
    <<"React", "TailwindCSS", "Node.js", "Express", "MongoDB", "Docker", "AWS">>
  ELSE IF Contains(role, Chars("data")) /\ Contains(role, Chars("scientist")) THEN
    <<"Python", "NLP", "AWS", "MongoDB">>
  ELSE <<"React", "Node.js", "MongoDB", "Docker", "AWS">>

\* the if/elif chain over the lowered role
desired(role) ==
  IF Contains(role, Chars("frontend")) THEN <<"React", "TailwindCSS">>
  ELSE IF Contains(role, Chars("backend")) THEN <<"Node.js", "Express", "MongoDB", "Docker">>
  ELSE IF (Contains(role, Chars("full")) /\ Contains(role, Chars("stack"))) \/ Contains(role, Chars("full-stack")) THEN
    <<"React", "TailwindCSS", "Node.js", "Express", "MongoDB", "Docker", "AWS">>
  ELSE IF Contains(role, Chars("ml")) THEN <<"Python", "NLP", "Docker", "AWS">>
  ELSE IF Contains(role, Chars("data")) /\ Contains(role, Chars("scientist")) THEN
    <<"Python", "NLP", "AWS", "MongoDB">>
  ELSE <<"React", "Node.js", "MongoDB", "Docker", "AWS">>

RECURSIVE NotIn(_, _)
\* [s for s in l if s not in skills]
NotIn(l, skills) ==
  IF l = <<>> THEN <<>>
  ELSE (IF InList(Head(l), skills) THEN <<>> ELSE <<Head(l)>>) \o NotIn(Tail(l), skills)

gap_result(r) ==
  [status |-> "ok",
   targetRole |-> r.target_role,
   missing |-> NotIn(desired(GapRole(r.target_role)), r.skills)]

GapRoleInputs ==
  {"Frontend Developer", "backend engineer", "Full Stack Developer", "full-stack dev",
   "ML Engineer", "Data Scientist", "Designer", "", "HTML developer",
   "Frontend and Backend", "full stack frontend", "backend ml", "stackful",
   "data analyst", "ml data scientist", "Ɓackend ML Engineer"}

GapSkillInputs ==
  {<<>>, <<"React">>, <<"react">>, <<" React">>, <<"React", "React">>,
   <<"TailwindCSS", "React">>,
   <<"Node.js", "Express", "MongoDB", "Docker">>,
   <<"React", "Node.js", "MongoDB", "Docker", "AWS">>,
   <<"AWS", "Docker", "NLP", "Python", "Rust">>,
   <<"Python", "NLP", "AWS", "MongoDB">>,
   <<"React", "TailwindCSS", "Node.js", "Express", "MongoDB", "Docker", "AWS">>}

GapRequests == [skills : GapSkillInputs, target_role : GapRoleInputs]

GapInit ==
  /\ req \in GapRequests
  /\ resp = NoResponse
  /\ prioritized = <<>>
  /\ pc = "gap_received"
  /\ NoCalls

gap ==
  /\ pc = "gap_received"
  /\ resp' = gap_result(req)
  /\ pc' = "gap_responded"
  /\ UNCHANGED <<req, prioritized, calls, weeksOf, prioOf>>

GapNext == gap

GapSpec == GapInit /\ [][GapNext]_vars

(***************************************************************************)
(* /interview/score: keyword coverage of an answer plus a length bonus.    *)
(*                                                                         *)
(* A request is [question, answer]; the handler runs as one step, pc goes  *)
(* from "score_received" to "score_responded" and resp holds the reply.    *)
(***************************************************************************)
MaxPad == 21

\* topics.keys() in the order the dict enumerates them
TopicKeys == <<"react", "node", "mongodb", "docker", "aws", "tailwind", "api">>

\* topics[k]
topics(k) ==
  CASE k = "react" -> <<"component", "state", "props", "hooks", "useeffect", "usememo">>
    [] k = "node" -> <<"event loop", "async", "await", "express", "non-blocking">>
    [] k = "mongodb" -> <<"schema", "index", "aggregation", "document", "collection">>
    [] k = "docker" -> <<"container", "image", "compose", "registry">>
    [] k = "aws" -> <<"ec2", "s3", "iam", "security", "vpc">>
    [] k = "tailwind" -> <<"utility", "class", "responsive", "css">>
    [] k = "api" -> <<"rest", "http", "auth", "rate limit", "jwt">>

DefaultKeys == <<"api">>

\* selected_keys = [k for k in topics.keys() if k in q], or ["api"]
SelectedKeys(q) ==
  LET InQuestion(k) == Contains(q, Chars(k))
      found == SelectSeq(TopicKeys, InQuestion)
  IN  IF found = <<>> THEN DefaultKeys ELSE found

RECURSIVE Keywords(_)
\* keywords = [kw for k in selected_keys for kw in topics[k]]
Keywords(selected_keys) ==
  IF selected_keys = <<>> THEN <<>>
  ELSE topics(Head(selected_keys)) \o Keywords(Tail(selected_keys))

\* matches = sum(1 for kw in keywords if kw in a)
Matches(keywords, a) == Cardinality({i \in 1..Len(keywords) : Contains(a, Chars(keywords[i]))})

MinTotal == 5

FullScore == 100

BonusStep == 50

MaxBonus == 20

GoodScore == 70

DecentScore == 40

\* total = max(5, len(keywords))
Total(keywords) == IF Len(keywords) > MinTotal THEN Len(keywords) ELSE MinTotal

\* base_score = int((matches / total) * 100): the product of the double
\* quotient truncates to the integer quotient for every total up to 40, and
\* the seven keyword lists together hold 34 keywords
BaseScore(matches, total) == (matches * FullScore) \div total

Bonus_uncapped(a) == Len(a) \div BonusStep

\* bonus = min(20, len(a) // 50)
Bonus(a) == IF Len(a) \div BonusStep < MaxBonus THEN Len(a) \div BonusStep ELSE MaxBonus

\* score = max(0, min(100, base_score + bonus))
ClampScore(x) == IF x > FullScore THEN FullScore ELSE IF x < 0 THEN 0 ELSE x

GoodFeedback == "Good coverage of key concepts."

DecentFeedback ==
  "Decent answer, consider elaborating on core concepts mentioned in the question."

TryFeedback == "Try to address the core concepts directly and provide concrete examples."

Feedback(score) ==
  IF score >= GoodScore THEN GoodFeedback
  ELSE IF score >= DecentScore THEN DecentFeedback
  ELSE TryFeedback

interview_score_result(r) ==
  LET q == Lower(r.question)
      a == Lower(r.answer)
      keywords == Keywords(SelectedKeys(q))
      score == ClampScore(BaseScore(Matches(keywords, a), Total(keywords)) + Bonus(a))
  IN  [status |-> "ok", score |-> score, feedback |-> Feedback(score)]

QuestionInputs ==
  {"", "Tell me about yourself", "Explain React hooks", "docker", "Why TailwindCSS?",
   "How does the Node event loop work with Docker?",
   "How do you design a REST API with MongoDB on AWS?",
   "react node mongodb docker aws tailwind api"}

\* 45 characters, 25 of them above U+FFFF, that name three api keywords
WideAnswer == "REST, HTTP and auth " \o "𰂀𰂀𰂀𰂀𰂀𰂀𰂀𰂀𰂀𰂀𰂀𰂀𰂀𰂀𰂀𰂀𰂀𰂀𰂀𰂀𰂀𰂀𰂀𰂀𰂀"

AnswerTexts ==
  {"", "REST and HTTP", "REST, HTTP and auth",
   "REST over HTTP with auth, JWT and a rate limit",
   "I use components, state and props with hooks like useEffect and useMemo",
   "Containers are built from an image",
   "utility class responsive css",
   "schema, index, aggregation on a document collection with async await in express",
   WideAnswer}

\* 50 characters that hold no keyword
Filler == "lorem ipsum dolor sit amet consectetur adipiscing "

RECURSIVE Padding(_)
Padding(n) == IF n = 0 THEN "" ELSE Filler \o Padding(n - 1)

PadCounts == {0, 1, 9, 10, 19, 20, MaxPad}

AnswerInputs == {t \o Padding(n) : t \in AnswerTexts, n \in PadCounts}

ScoreCalls == [question : QuestionInputs, answer : AnswerInputs]

InterviewScoreInit ==
  /\ req \in ScoreCalls
  /\ resp = NoResponse
  /\ prioritized = <<>>
  /\ pc = "score_received"
  /\ NoCalls

interview_score ==
  /\ pc = "score_received"
  /\ resp' = interview_score_result(req)
  /\ pc' = "score_responded"
  /\ UNCHANGED <<req, prioritized, calls, weeksOf, prioOf>>

InterviewScoreNext == interview_score

InterviewScoreSpec == InterviewScoreInit /\ [][InterviewScoreNext]_vars

(***************************************************************************)
(* Properties of /roadmap.                                                 *)
(***************************************************************************)
\* the handler has returned a plan for a non-empty cleaned missing list
PlanReturned == pc = "responded" /\ resp.status = "ok" /\ resp.roadmap # <<>>

Milestones == [i \in 1..Len(resp.roadmap) |-> resp.roadmap[i].milestone]

MilestoneAt(i) == resp.roadmap[i].milestone

HasMilestone(m) == \E i \in 1..Len(resp.roadmap) : resp.roadmap[i].milestone = m

\* C1: in every returned plan the i-th week has week = i, so the week
\* numbers read in list order are 1, 2, ..., N without gap or repeat.
C1_WeekNumbers ==
  (pc = "responded" /\ resp.status = "ok") =>
    \A i \in 1..Len(resp.roadmap) : resp.roadmap[i].week = i

\* a plan with two skills and a Reinforcement week: seven weeks
C1_Witness == PlanReturned /\ Len(resp.roadmap) >= 7

\* C2: when the request's missing list is empty the handler returns exactly
\* {roadmap: []}, whatever preferences and interview hold.
C2_EmptyMissing ==
  (pc = "responded" /\ req.missing = <<>>) =>
    (resp.status = "ok" /\ resp.roadmap = <<>>)

\* an empty missing list together with a pace that is no string
C2_Witness ==
  /\ pc = "responded"
  /\ req.missing = <<>>
  /\ req.preferences.present
  /\ req.preferences.pace.t = "int"
  /\ resp.status = "ok"

NoRepeat(l) == \A i, j \in 1..Len(l) : l[i] = l[j] => i = j

\* the request's missing list holds the same entry twice
RepeatedMissing == \E i, j \in 1..Len(req.missing) : i # j /\ req.missing[i] = req.missing[j]

\* the request's focus list names the same area twice
RepeatedFocus ==
  /\ req.preferences.present
  /\ \E i, j \in 1..Len(req.preferences.focus.l) :
       /\ i # j
       /\ IsStr(req.preferences.focus.l[i])
       /\ req.preferences.focus.l[i] = req.preferences.focus.l[j]

\* C3: the prioritized list never holds the same skill twice, so no skill
\* gets two Foundations weeks.
C3_NoRepeatedSkill ==
  pc = "responded" =>
    /\ NoRepeat(prioritized)
    /\ \A i, j \in 1..Len(resp.roadmap) :
         /\ resp.roadmap[i].milestone = resp.roadmap[j].milestone
         /\ Contains(resp.roadmap[i].milestone, "Foundations: ")
         => i = j

\* a repeated missing entry under a focus list that repeats its area
C3_Witness ==
  /\ PlanReturned
  /\ RepeatedMissing
  /\ RepeatedFocus
  /\ InList(prioritized[1], area_map(Chars("frontend")))

\* skill s is named by some focus area of the list fa
Named(s, fa) == \E i \in 1..Len(fa) : InList(s, area_map(fa[i]))

\* the first focus area naming s, and the place of s in that area's list
FirstArea(s, fa) ==
  CHOOSE i \in 1..Len(fa) :
    /\ InList(s, area_map(fa[i]))
    /\ \A k \in 1..(i - 1) : ~InList(s, area_map(fa[k]))

PlaceIn(s, l) == CHOOSE j \in 1..Len(l) : l[j] = s

\* the first occurrence of s in the list cm
FirstOccurrence(s, cm) ==
  CHOOSE i \in 1..Len(cm) : cm[i] = s /\ \A k \in 1..(i - 1) : cm[k] # s

\* a comes before b in the reference ordering for the focus areas fa and
\* the cleaned missing list cm
RefBefore(a, b, fa, cm) ==
  IF Named(a, fa) /\ Named(b, fa)
  THEN \/ FirstArea(a, fa) < FirstArea(b, fa)
       \/ /\ FirstArea(a, fa) = FirstArea(b, fa)
          /\ PlaceIn(a, area_map(fa[FirstArea(a, fa)])) < PlaceIn(b, area_map(fa[FirstArea(b, fa)]))
  ELSE IF Named(a, fa) # Named(b, fa) THEN Named(a, fa)
  ELSE FirstOccurrence(a, cm) < FirstOccurrence(b, cm)

\* the caller's focus areas as the handler reads them
FocusAreas == Focus(req.preferences)

\* C4: the prioritized list is the reference ordering: the missing skills
\* named by a focus area first, by area in the caller's order and by the
\* area's own order within an area, then the other missing skills by first
\* occurrence; each missing skill once.
C4_ReferenceOrdering ==
  (pc = "responded" /\ resp.status = "ok") =>
    LET cm == CleanMissing(req.missing)
        fa == FocusAreas
    IN  /\ {prioritized[i] : i \in 1..Len(prioritized)} = {cm[i] : i \in 1..Len(cm)}
        /\ NoRepeat(prioritized)
        /\ \A i, j \in 1..Len(prioritized) :
             i < j => RefBefore(prioritized[i], prioritized[j], fa, cm)

\* two focus areas reorder the missing list: React was given first, and
\* backend's Node.js comes out first
C4_Witness ==
  /\ PlanReturned
  /\ Len(FocusAreas) >= 2
  /\ CleanMissing(req.missing) = <<"React", "Node.js">>
  /\ prioritized = <<"Node.js", "React">>

\* the string entries of interview.weak_topics as the caller gave them: the
\* strings of a list, the characters of a string
GivenWeakTopics ==
  IF req.interview.present /\ req.interview.weak_topics.t = "list"
  THEN {req.interview.weak_topics.l[i].s :
          i \in {k \in 1..Len(req.interview.weak_topics.l) :
                   req.interview.weak_topics.l[k].t = "str"}}
  ELSE IF req.interview.present /\ req.interview.weak_topics.t = "str"
  THEN {Chars(req.interview.weak_topics.s)[i] :
          i \in 1..Len(Chars(req.interview.weak_topics.s))}
  ELSE {}

\* some weak topic contains skill s, both compared in lower case
Flagged(s) == \E t \in GivenWeakTopics : Contains(Lower(t), Lower(s))

RECURSIVE SkillMilestones(_)
\* the milestones of the per-skill weeks for the list of skills l
SkillMilestones(l) ==
  IF l = <<>> THEN <<>>
  ELSE <<"Foundations: " \o Head(l), "Project: Build with " \o Head(l)>>
       \o (IF Flagged(Head(l)) THEN <<"Reinforcement: " \o Head(l)>> ELSE <<>>)
       \o SkillMilestones(Tail(l))

FlaggedCount == Cardinality({i \in 1..Len(prioritized) : Flagged(prioritized[i])})

\* C5: the milestones of a plan are, per prioritized skill in order,
\* Foundations, Project and (only for a flagged skill) Reinforcement, then
\* the Capstone week, then the Assessment week: 2*P + R + 2 weeks.
C5_MilestoneSequence ==
  PlanReturned =>
    /\ Len(resp.roadmap) = 2 * Len(prioritized) + FlaggedCount + 2
    /\ SubSeq(Milestones, 1, Len(resp.roadmap) - 2) = SkillMilestones(prioritized)
    /\ Contains(MilestoneAt(Len(resp.roadmap) - 1), "Capstone: ")
    /\ MilestoneAt(Len(resp.roadmap)) = "Assessment & Reflection"

\* two skills, the first one flagged: its Reinforcement week is the third
\* week and the second skill's Foundations week the fourth
C5_Witness ==
  /\ PlanReturned
  /\ Len(prioritized) = 2
  /\ Flagged(prioritized[1])
  /\ ~Flagged(prioritized[2])
  /\ MilestoneAt(3) = "Reinforcement: " \o prioritized[1]
  /\ MilestoneAt(4) = "Foundations: " \o prioritized[2]

IsCapstone(i) == SubSeq(MilestoneAt(i), 1, Len("Capstone: ")) = "Capstone: "

IsAssessment(i) == MilestoneAt(i) = "Assessment & Reflection"

\* C6: a non-empty plan has exactly one Capstone week, the second-to-last,
\* and exactly one Assessment week, the last; the Capstone's milestone lists
\* the prioritized skills in prioritized order, joined by ", ".
C6_CapstoneAndAssessment ==
  PlanReturned =>
    /\ Len(resp.roadmap) >= 2
    /\ {i \in 1..Len(resp.roadmap) : IsCapstone(i)} = {Len(resp.roadmap) - 1}
    /\ {i \in 1..Len(resp.roadmap) : IsAssessment(i)} = {Len(resp.roadmap)}
    /\ MilestoneAt(Len(resp.roadmap) - 1)
         = "Capstone: Integrate " \o Join(", ", prioritized)

\* a plan whose prioritized order differs from the order of missing
C6_Witness ==
  /\ PlanReturned
  /\ prioritized = <<"React", "Rust">>
  /\ CleanMissing(req.missing) = <<"Rust", "React">>
  /\ MilestoneAt(Len(resp.roadmap) - 1) = "Capstone: Integrate React, Rust"

\* C7: a Reinforcement week is emitted for a prioritized skill exactly when
\* some string entry of weak_topics contains the skill, compared in lower
\* case; a weak topic that is a fragment of the skill name does not count.
C7_ReinforcementIffWeak ==
  PlanReturned =>
    /\ \A i \in 1..Len(prioritized) :
         HasMilestone("Reinforcement: " \o prioritized[i]) <=> Flagged(prioritized[i])
    /\ (GivenWeakTopics = {"Rea"} => ~HasMilestone("Reinforcement: React"))
    /\ (InList("React", prioritized) =>
          (HasMilestone("Reinforcement: React")
             <=> \E t \in GivenWeakTopics : Contains(Lower(t), Chars("react"))))

\* React is reinforced by the topic "REACT hooks"
C7_Witness ==
  /\ PlanReturned
  /\ "REACT hooks" \in GivenWeakTopics
  /\ InList("React", prioritized)
  /\ HasMilestone("Reinforcement: React")

\* the only weak topic is the fragment "Rea": React gets no Reinforcement
C7_FragmentWitness ==
  /\ PlanReturned
  /\ GivenWeakTopics = {"Rea"}
  /\ InList("React", prioritized)
  /\ ~HasMilestone("Reinforcement: React")

\* the upper-case letters of Élixir and of a weak topic lie outside ASCII
C7_AccentWitness ==
  /\ PlanReturned
  /\ GivenWeakTopics = {"ÉLIXIR"}
  /\ prioritized = <<"Élixir">>
  /\ HasMilestone("Reinforcement: Élixir")

\* the capital sigma that ends ΟΔΟΣ is lowered to the final small sigma:
\* the topic written with the other small sigma does not contain the skill
C7_SigmaWitness ==
  /\ PlanReturned
  /\ GivenWeakTopics = {"οδοσ"}
  /\ prioritized = <<"ΟΔΟΣ">>
  /\ ~HasMilestone("Reinforcement: ΟΔΟΣ")

\* weak_topics is the string "Docker": its characters are the topics, and
\* the skill "o" is one of them
C7_CharactersWitness ==
  /\ PlanReturned
  /\ req.interview.weak_topics = PyStr("Docker")
  /\ prioritized = <<"o", "React">>
  /\ HasMilestone("Reinforcement: o")
  /\ ~HasMilestone("Reinforcement: React")

\* the lower-case letter of U+0181 is one no string constant holds: the
\* skill and the topic that begin with it are lowered alike
C7_NamedLetterWitness ==
  /\ PlanReturned
  /\ GivenWeakTopics = {"ƁX basics"}
  /\ Lower("ƁX basics") = <<"U+0253">> \o Chars("x basics")
  /\ prioritized = <<"Ɓx">>
  /\ HasMilestone("Reinforcement: Ɓx")

\* weak_topics is a string of two characters, the second above U+FFFF: the
\* topics are the two characters, and the skill is the second
C7_WideCharacterWitness ==
  /\ PlanReturned
  /\ req.interview.weak_topics = PyStr("a𰂀")
  /\ GivenWeakTopics = {"a", "𰂀"}
  /\ prioritized = <<"𰂀">>
  /\ HasMilestone("Reinforcement: 𰂀")

\* the task list the handler passes to add_week for the week of milestone m
PassedTasks(m) ==
  IF \E i \in 1..Len(prioritized) : m = FoundationsMilestone(prioritized[i])
  THEN FoundationsTasks(SubSeq(m, Len("Foundations: ") + 1, Len(m)))
  ELSE IF \E i \in 1..Len(prioritized) : m = ProjectMilestone(prioritized[i])
  THEN ProjectTasks(SubSeq(m, Len("Project: Build with ") + 1, Len(m)))
  ELSE IF \E i \in 1..Len(prioritized) : m = ReinforcementMilestone(prioritized[i])
  THEN ReinforcementTasks(SubSeq(m, Len("Reinforcement: ") + 1, Len(m)))
  ELSE IF m = AssessmentMilestone
  THEN AssessmentTasks(StrengthTopics(req.interview))
  ELSE CapstoneTasks(AvgScore(req.interview))

\* the caller gave the pace "slow"
SlowPace == req.preferences.present /\ req.preferences.pace = PyStr("slow")

\* C8: under pace "slow" every week has exactly three tasks: the first two
\* of the list passed to add_week, then the reflection task.
C8_SlowPaceThreeTasks ==
  (PlanReturned /\ SlowPace) =>
    \A i \in 1..Len(resp.roadmap) :
      /\ Len(resp.roadmap[i].tasks) = 3
      /\ SubSeq(resp.roadmap[i].tasks, 1, 2) = SubSeq(PassedTasks(MilestoneAt(i)), 1, 2)
      /\ resp.roadmap[i].tasks[3] = "Reflect: write notes on key learnings"

\* slow pace with eight hours and a Capstone list of four tasks
C8_Witness ==
  /\ PlanReturned
  /\ SlowPace
  /\ req.preferences.availability_hours = PyInt(8)
  /\ Len(PassedTasks(MilestoneAt(Len(resp.roadmap) - 1))) = 4
  /\ Len(resp.roadmap[Len(resp.roadmap) - 1].tasks) = 3

\* the caller supplied a pace string and an integer availability_hours
PaceAndHoursGiven ==
  /\ req.preferences.present
  /\ req.preferences.pace.t = "str"
  /\ req.preferences.availability_hours.t = "int"

\* the three-way rule applied to the pace and the hours the caller supplied
RuleTasks(passed, pace, hours) ==
  IF pace = "fast" /\ hours >= 8
  THEN passed \o <<"Optional advanced reading/practice for stretch goals">>
  ELSE IF pace = "slow" \/ hours < 5
  THEN SubSeq(passed, 1, 2) \o <<"Reflect: write notes on key learnings">>
  ELSE passed

\* C9: every week's tasks follow the three-way rule for every pace string
\* and every integer availability_hours the caller supplies, zero and
\* negative values included: fast and hours >= 8 adds the stretch task,
\* otherwise slow or hours < 5 keeps two tasks plus the reflection task,
\* otherwise the tasks are unmodified.
C9_PacingRule ==
  (PlanReturned /\ PaceAndHoursGiven) =>
    \A i \in 1..Len(resp.roadmap) :
      resp.roadmap[i].tasks
        = RuleTasks(PassedTasks(MilestoneAt(i)),
                    req.preferences.pace.s,
                    req.preferences.availability_hours.n)

\* the tasks of the Capstone week of the returned plan
CapstonePlanTasks == resp.roadmap[Len(resp.roadmap) - 1].tasks

\* C10: for every pace and every availability_hours the Capstone week's
\* tasks contain the stretch-feature task exactly when avg_score >= 70 and
\* the scope-down task exactly when avg_score < 50.
C10_CapstoneScoreTasks ==
  PlanReturned =>
    /\ InList("Stretch: add an advanced feature and write a postmortem", CapstonePlanTasks)
         <=> AvgScore(req.interview) >= 70
    /\ InList("Scope down and solidify fundamentals before expanding", CapstonePlanTasks)
         <=> AvgScore(req.interview) < 50

\* the tasks of the Capstone week the handler builds from the variables c
\* when avg_score is a
CapstoneTasksAt(c, a) ==
  LET weeks == CapstoneWeek(<<>>, c.prioritized, [c EXCEPT !.avg_score = a])
  IN  weeks[Len(weeks)].tasks

HasBothScoreTasks(tasks) == InList(StretchFeatureTask, tasks) /\ InList(ScopeDownTask, tasks)

\* C11 as stated: for a returned plan there is an integer avg_score for
\* which the Capstone week's tasks contain both the stretch-feature task and
\* the scope-down task.
C11_BothScoreTasksPossible ==
  PlanReturned =>
    LET c == Context(req)
    IN  \E a \in ScoreRange : HasBothScoreTasks(CapstoneTasksAt(c, a))

\* C11, amended: the two score conditions exclude each other; for every
\* integer avg_score the Capstone week's tasks contain at most one of the
\* stretch-feature task and the scope-down task: the first only when
\* avg_score >= 70, the second only when avg_score < 50.
C11_ScoreTasksExclusive ==
  PlanReturned =>
    /\ ~HasBothScoreTasks(CapstonePlanTasks)
    /\ InList(StretchFeatureTask, CapstonePlanTasks) => AvgScore(req.interview) >= 70
    /\ InList(ScopeDownTask, CapstonePlanTasks) => AvgScore(req.interview) < 50

\* avg_score 70 under a pace that keeps every task: the stretch-feature
\* task is in the Capstone week and the scope-down task is not
C11_Witness ==
  /\ PlanReturned
  /\ AvgScore(req.interview) = 70
  /\ Len(CapstonePlanTasks) >= 4
  /\ InList(StretchFeatureTask, CapstonePlanTasks)
  /\ ~InList(ScopeDownTask, CapstonePlanTasks)

RECURSIVE StrEntries(_)
\* the string entries of a list of values, kept as values
StrEntries(l) ==
  IF l = <<>> THEN <<>>
  ELSE IF IsStr(Head(l)) THEN <<Head(l)>> \o StrEntries(Tail(l))
  ELSE StrEntries(Tail(l))

\* a list field with its non-string entries removed; absent when no list
ListOrAbsent(v) == IF v.t = "list" THEN PyList(StrEntries(v.l)) ELSE PyNone

\* the request with every malformed optional field made absent: a pace that
\* is no string, an availability_hours or avg_score that is no integer, a
\* focus, weak_topics or strength_topics that is no list
WellFormed(r) ==
  [r EXCEPT
     !.preferences =
       IF ~@.present THEN @
       ELSE [@ EXCEPT !.focus = ListOrAbsent(@),
                      !.pace = IF @.t = "str" THEN @ ELSE PyNone,
                      !.availability_hours = IF @.t = "int" THEN @ ELSE PyNone],
     !.interview =
       IF ~@.present THEN @
       ELSE [@ EXCEPT !.weak_topics = ListOrAbsent(@),
                      !.strength_topics = ListOrAbsent(@),
                      !.avg_score = IF @.t = "int" THEN @ ELSE PyNone]]

\* C12: for a non-empty missing list the handler never fails on malformed
\* optional fields: it returns the plan it returns when each malformed field
\* is absent and the non-string list entries are removed.
C12_MalformedTreatedAsAbsent ==
  (pc = "responded" /\ CleanMissing(req.missing) # <<>>) =>
    /\ resp.status = "ok"
    /\ resp = roadmap_result(WellFormed(req))

RECURSIVE SkillWeekKinds(_)
\* the kind and the skill of each per-skill week, for the skills l in order
SkillWeekKinds(l) ==
  IF l = <<>> THEN <<>>
  ELSE <<[kind |-> "foundations", skill |-> Head(l)],
         [kind |-> "project", skill |-> Head(l)]>>
       \o (IF Flagged(Head(l)) THEN <<[kind |-> "reinforcement", skill |-> Head(l)]>> ELSE <<>>)
       \o SkillWeekKinds(Tail(l))

Buckets == {"foundations", "project"}

\* the list rs is one of the catalog's resource lists
IsCatalogList(rs) ==
  \E k \in 1..Len(SkillKeys) : \E b \in Buckets : rs = skill_resources(SkillKeys[k], b)

\* three resources, each URL containing the skill name, and no catalog list
Synthesized(rs, s) ==
  /\ Len(rs) = 3
  /\ \A j \in 1..Len(rs) : Contains(rs[j].url, s)
  /\ ~IsCatalogList(rs)

\* C13 as stated: every week of a skill that is not a key of the catalog
\* carries exactly 3 synthesized resources whose URLs contain the skill
\* name, never a resource list of a catalog skill.
C13_NonKeySkillGetsGeneric ==
  PlanReturned =>
    LET plan == SkillWeekKinds(prioritized)
    IN  \A i \in 1..Len(plan) :
          (plan[i].skill # "" /\ ~InList(plan[i].skill, SkillKeys)) =>
            Synthesized(resp.roadmap[i].learning_resources, plan[i].skill)

\* the bucket of a week by its kind
KindBucket(kind) == IF kind = "foundations" THEN "foundations" ELSE "project"

\* C14: the resources of a Foundations week come from the 'foundations'
\* bucket of its skill, those of a Project week and of a Reinforcement week
\* from the 'project' bucket, whatever text the skill name contains.
C14_BucketByWeekKind ==
  PlanReturned =>
    LET plan == SkillWeekKinds(prioritized)
    IN  \A i \in 1..Len(plan) :
          plan[i].skill # "" =>
            resp.roadmap[i].learning_resources
              = ResourcesOf(plan[i].skill, SkillKey(plan[i].skill), KindBucket(plan[i].kind))

\* C15: the Capstone week and the Assessment week each carry a fixed list
\* of 3 resources, the same for every request; writing them leaves every
\* earlier week as add_week appended it, and writing the Assessment's
\* leaves the Capstone's in place.
C15_FixedFinalResources ==
  PlanReturned =>
    LET n == Len(resp.roadmap)
        c == Context(req)
    IN  /\ Len(capstone_resources) = 3 /\ Len(assessment_resources) = 3
        /\ resp.roadmap[n - 1].learning_resources = capstone_resources
        /\ resp.roadmap[n].learning_resources = assessment_resources
        /\ SubSeq(resp.roadmap, 1, n - 2) = AllSkillWeeks(<<>>, prioritized, c)

\* a plan with a Reinforcement week whose per-skill weeks keep their own
\* catalog resources next to the two fixed lists
C15_Witness ==
  /\ PlanReturned
  /\ Len(resp.roadmap) >= 5
  /\ prioritized[1] = "React"
  /\ resp.roadmap[1].learning_resources[1].url = "https://react.dev/learn"
  /\ resp.roadmap[Len(resp.roadmap) - 1].learning_resources[1].title = "Portfolio Project Ideas"
  /\ resp.roadmap[Len(resp.roadmap)].learning_resources[1].title = "How to Write a Great README"

\* the entry is the empty string, or is empty once trimmed of whitespace
BlankEntry(m) == Strip(m.s) = ""

\* C17: no blank entry of missing reaches the prioritized list, no week's
\* milestone names an empty skill, and a missing list made only of blank
\* entries yields the empty plan.
C17_BlankEntriesDiscarded ==
  pc = "responded" =>
    /\ ~InList("", prioritized)
    /\ \A i \in 1..Len(resp.roadmap) :
         MilestoneAt(i) \notin {FoundationsMilestone(""), ProjectMilestone(""),
                                ReinforcementMilestone("")}
    /\ (\A i \in 1..Len(req.missing) : BlankEntry(req.missing[i])) =>
         (resp.status = "ok" /\ resp.roadmap = <<>>)

\* preferences and interview are both absent or empty
NeutralRequest ==
  /\ req.preferences \in {NoPreferences, EmptyPreferences}
  /\ req.interview \in {NoInterview, EmptyInterview}

\* the three base tasks of a per-skill week
BaseTasks(kind, skill) ==
  CASE kind = "foundations" -> FoundationsTasks(skill)
    [] kind = "project" -> ProjectTasks(skill)
    [] kind = "reinforcement" -> ReinforcementTasks(skill)

\* C18: with preferences and interview absent or empty the plan is the one
\* for pace balanced, 6 hours, avg_score 0 and no topics: two weeks per
\* skill and no Reinforcement week, every per-skill week and the Assessment
\* week with their three base tasks unmodified, the Assessment naming 'key
\* concepts', and the Capstone week with its three base tasks followed by
\* the scope-down task that avg_score = 0 selects.
C18_NeutralDefaults ==
  (PlanReturned /\ NeutralRequest) =>
    LET n == Len(resp.roadmap)
    IN  /\ n = 2 * Len(prioritized) + 2
        /\ \A k \in 1..Len(prioritized) :
              /\ MilestoneAt(2 * k - 1) = "Foundations: " \o prioritized[k]
              /\ resp.roadmap[2 * k - 1].tasks = BaseTasks("foundations", prioritized[k])
              /\ MilestoneAt(2 * k) = "Project: Build with " \o prioritized[k]
              /\ resp.roadmap[2 * k].tasks = BaseTasks("project", prioritized[k])
        /\ \A i \in 1..n : ~Contains(MilestoneAt(i), "Reinforcement: ")
        /\ resp.roadmap[n - 1].tasks
             = <<"Plan a portfolio-level project combining the learned skills",
                 "Implement core features, focusing on clean architecture",
                 "Add basic CI (tests) and deploy locally or to a free tier",
                 "Scope down and solidify fundamentals before expanding">>
        /\ resp.roadmap[n].tasks
             = <<"Create a README and short demo video of the capstone",
                 "Write a blog/notes highlighting key concepts",
                 "Prepare interview stories around the project (problem, approach, impact)">>
        /\ resp = roadmap_result(
                    [req EXCEPT
                       !.preferences = [EmptyPreferences EXCEPT
                                          !.pace = PyStr("balanced"),
                                          !.availability_hours = PyInt(6)],
                       !.interview = [EmptyInterview EXCEPT
                                        !.weak_topics = PyList(<<>>),
                                        !.strength_topics = PyList(<<>>),
                                        !.avg_score = PyInt(0)]])

\* an empty preferences dict with no interview, two skills
C18_Witness ==
  /\ PlanReturned
  /\ req.preferences = EmptyPreferences
  /\ req.interview = NoInterview
  /\ Len(prioritized) = 2
  /\ Len(resp.roadmap) = 6
  /\ Len(CapstonePlanTasks) = 4

\* the string entries of interview.strength_topics in the caller's order:
\* the strings of a list, the characters of a string
GivenStrengths ==
  IF req.interview.present /\ req.interview.strength_topics.t = "list"
  THEN StrEntries(req.interview.strength_topics.l)
  ELSE IF req.interview.present /\ req.interview.strength_topics.t = "str"
  THEN [i \in 1..Len(Chars(req.interview.strength_topics.s)) |->
          PyStr(Chars(req.interview.strength_topics.s)[i])]
  ELSE <<>>

\* the first three of them, joined by ", "; 'key concepts' when there is none
Highlight ==
  IF GivenStrengths = <<>> THEN "key concepts"
  ELSE Join(", ", [i \in 1..(IF Len(GivenStrengths) < 3 THEN Len(GivenStrengths) ELSE 3)
                     |-> GivenStrengths[i].s])

\* the second task of the Assessment week
HighlightTask == resp.roadmap[Len(resp.roadmap)].tasks[2]

\* C20 as stated: the second task of the Assessment week is 'Write a
\* blog/notes highlighting X', X being the first three string entries of
\* strength_topics in their order joined by ", " (non-string entries are
\* skipped before counting), and 'key concepts' exactly when no string
\* entry is given.
C20_KeyConceptsOnlyWithoutTopics ==
  PlanReturned =>
    /\ MilestoneAt(Len(resp.roadmap)) = "Assessment & Reflection"
    /\ HighlightTask = "Write a blog/notes highlighting " \o Highlight
    /\ (HighlightTask = "Write a blog/notes highlighting key concepts")
         <=> (GivenStrengths = <<>>)

\* C20, amended: X is the first three string entries joined by ", ", and
\* 'key concepts' whenever no string entry is given (with entries given X
\* is their join, which may itself spell 'key concepts').
C20_AssessmentHighlight ==
  PlanReturned =>
    /\ MilestoneAt(Len(resp.roadmap)) = "Assessment & Reflection"
    /\ HighlightTask = "Write a blog/notes highlighting " \o Highlight
    /\ GivenStrengths = <<>> => HighlightTask = "Write a blog/notes highlighting key concepts"

\* the single topic given is 'key concepts' itself
C20_KeyConceptsGivenWitness ==
  /\ PlanReturned
  /\ req.interview.present
  /\ req.interview.strength_topics = PyList(<<PyStr("key concepts")>>)
  /\ HighlightTask = "Write a blog/notes highlighting key concepts"

\* strength_topics is the string "go": its characters are the topics
C20_CharactersWitness ==
  /\ PlanReturned
  /\ req.interview.present
  /\ req.interview.strength_topics = PyStr("go")
  /\ HighlightTask = "Write a blog/notes highlighting g, o"

\* strength_topics is a string of two characters, the first above U+FFFF
\* (a request of ScoreSpec)
C20_WideCharacterWitness ==
  /\ PlanReturned
  /\ req.interview.present
  /\ req.interview.strength_topics = PyStr("𰂀b")
  /\ HighlightTask = "Write a blog/notes highlighting 𰂀, b"

\* four string topics with a non-string entry after the first: the first
\* three strings are named
C20_Witness ==
  /\ PlanReturned
  /\ Len(GivenStrengths) = 4
  /\ ~IsStr(req.interview.strength_topics.l[2])
  /\ resp.roadmap[Len(resp.roadmap)].tasks[2]
       = "Write a blog/notes highlighting APIs, Testing, SQL"

\* only non-string entries are given: 'key concepts'
C20_NoStringWitness ==
  /\ PlanReturned
  /\ req.interview.present
  /\ req.interview.strength_topics = PyList(<<PyInt(4)>>)
  /\ resp.roadmap[Len(resp.roadmap)].tasks[2] = "Write a blog/notes highlighting key concepts"

\* invocation i has ended
Responded(i) == calls[i].pc = "responded"

\* C19: in every interleaving each invocation returns exactly the plan (or
\* ends in the failure) of the same request handled alone in one piece.
C19_NoInterference ==
  \A i \in Calls : Responded(i) => calls[i].resp = roadmap_result(calls[i].req)

\* two invocations with different requests have both returned their plans,
\* of four and of five weeks, while a third one is between two statements
C19_Witness ==
  \E i, j, k \in Calls :
    /\ Responded(i) /\ Responded(j)
    /\ calls[i].req # calls[j].req
    /\ Len(calls[i].resp.roadmap) = 4
    /\ Len(calls[j].resp.roadmap) = 5
    /\ calls[k].pc = "project"

\* invocation k has run statements and its request differs from that of
\* invocation i
OtherRan(k, i) == calls[k].req # calls[i].req /\ calls[k].pc # "received"

\* C16: two invocations with identical missing, preferences and interview
\* return identical responses, whatever the other invocations did before or
\* between their statements: the response of the one that has ended is the
\* response of every other one with its request, at whatever statement the
\* remaining invocations stand.
C16_Deterministic ==
  \A i, j \in Calls :
    (Responded(i) /\ Responded(j) /\ calls[i].req = calls[j].req) =>
      calls[i].resp = calls[j].resp

\* two invocations with the same request have both returned its plan of
\* five weeks; a third invocation with another request has added its
\* Foundations week and has not ended
C16_Witness ==
  \E i, j, k \in Calls :
    /\ i # j
    /\ Responded(i) /\ Responded(j)
    /\ calls[i].req = calls[j].req
    /\ Len(calls[i].resp.roadmap) = 5
    /\ calls[i].resp = calls[j].resp
    /\ OtherRan(k, i)
    /\ calls[k].pc = "project"
    /\ Len(weeksOf[WeeksCell(k)]) = 1

\* catalog key number k matches skill s by substring, in lower case, one
\* containing the other
KeyMatches(k, s) ==
  \/ Contains(Lower(s), Lower(SkillKeys[k]))
  \/ Contains(Lower(SkillKeys[k]), Lower(s))

\* the numbers of the catalog keys that match s, in enumeration order
MatchingKeys(s) == {k \in 1..Len(SkillKeys) : KeyMatches(k, s)}

\* the first of them
FirstMatchingKey(s) == CHOOSE k \in MatchingKeys(s) : \A j \in MatchingKeys(s) : k <= j

\* the resources the resolution order gives skill s in bucket b
Resolved(s, b) ==
  IF \E k \in 1..Len(SkillKeys) : SkillKeys[k] = s THEN skill_resources(s, b)
  ELSE IF MatchingKeys(s) # {} THEN skill_resources(SkillKeys[FirstMatchingKey(s)], b)
  ELSE default_resources(s, b)

\* the text of the skill name does not mislead the choice of the bucket
\* (C14): the name does not contain 'foundations'
PlainName(s) == ~Contains(Lower(s), Chars("foundations"))

\* C13, amended: every week of a skill that matches no catalog key, neither
\* exactly nor by case-insensitive substring in either direction, carries
\* exactly 3 synthesized resources whose URLs contain the skill name, never
\* a resource list of a catalog skill; they are those of the requested
\* bucket (foundations for a Foundations week, project for a Project or a
\* Reinforcement week) when the name does not contain 'foundations'.  A
\* skill that is no key and matches one by substring carries a catalog
\* list: that of the first key it matches, for the requested bucket.
C13_UnmatchedSkillGetsGeneric ==
  PlanReturned =>
    LET plan == SkillWeekKinds(prioritized)
    IN  /\ Len(resp.roadmap) = Len(plan) + 2
        /\ \A i \in 1..Len(plan) :
              LET s == plan[i].skill
                  rs == resp.roadmap[i].learning_resources
              IN  /\ MatchingKeys(s) = {} =>
                        /\ Synthesized(rs, s)
                        /\ PlainName(s) => rs = default_resources(s, KindBucket(plan[i].kind))
                  /\ (s # "" /\ ~InList(s, SkillKeys) /\ MatchingKeys(s) # {}) =>
                        /\ IsCatalogList(rs)
                        /\ PlainName(s) =>
                              rs = skill_resources(SkillKeys[FirstMatchingKey(s)],
                                                   KindBucket(plan[i].kind))

\* Élixir, outside the catalog and flagged by a weak topic, is followed by
\* React Native, no key either: the three weeks of Élixir carry search links
\* for Élixir, those of the project bucket in its Reinforcement week, and
\* the weeks of React Native carry the lists of React
C13_Witness ==
  /\ PlanReturned
  /\ prioritized = <<"Élixir", "React Native">>
  /\ MilestoneAt(3) = "Reinforcement: Élixir"
  /\ resp.roadmap[1].learning_resources[1].url
       = "https://www.google.com/search?q=Élixir+official+documentation"
  /\ resp.roadmap[3].learning_resources[1].url
       = "https://www.google.com/search?q=Élixir+project+ideas"
  /\ resp.roadmap[4].learning_resources = skill_resources("React", "foundations")
  /\ resp.roadmap[5].learning_resources = skill_resources("React", "project")

\* C21: a skill that is exactly a catalog key gets that key's entry;
\* otherwise the entry of the first key in enumeration order that matches
\* it by case-insensitive substring; the synthesized resources only when no
\* key matches.
C21_ResolutionOrder ==
  (PlanReturned /\ Len(prioritized) = 1) =>
    /\ resp.roadmap[1].learning_resources = Resolved(prioritized[1], "foundations")
    /\ resp.roadmap[2].learning_resources = Resolved(prioritized[1], "project")
    /\ IsCatalogList(resp.roadmap[1].learning_resources) <=> MatchingKeys(prioritized[1]) # {}

\* "Docker AWS" contains two keys: AWS comes first in the catalog
C21_Witness ==
  /\ PlanReturned
  /\ prioritized = <<"Docker AWS">>
  /\ MatchingKeys("Docker AWS") = {6, 7}
  /\ resp.roadmap[1].learning_resources = skill_resources("AWS", "foundations")
  /\ resp.roadmap[2].learning_resources = skill_resources("AWS", "project")

\* "Kotlin" matches no key: search links
C21_GenericWitness ==
  /\ PlanReturned
  /\ prioritized = <<"Kotlin">>
  /\ MatchingKeys("Kotlin") = {}
  /\ Contains(resp.roadmap[1].learning_resources[1].url, "q=Kotlin+")

(***************************************************************************)
(* Properties of generate_detailed_resume_questions.                       *)
(***************************************************************************)
\* the call has returned for a non-empty resume_analysis
QuestionsReturned == pc = "detailed_returned" /\ DOMAIN req.resume_analysis # {}

\* C22: for every role, skill list and non-empty resume_analysis the function
\* returns between 4 and 6 questions, as its closing comment says
C22_FourToSixQuestions ==
  QuestionsReturned => (4 <= Len(resp.questions) /\ Len(resp.questions) <= MaxQuestions)

(***************************************************************************)
(* Properties of the prioritization of /roadmap.                           *)
(***************************************************************************)
\* the set of entries of a list
Entries(l) == {l[i] : i \in 1..Len(l)}

\* the number of weeks of the returned plan with milestone m
WeeksWith(m) == Cardinality({i \in 1..Len(resp.roadmap) : resp.roadmap[i].milestone = m})

\* the milestones a per-skill week of skill s can carry
MilestonesOf(s) == {"Foundations: " \o s, "Project: Build with " \o s, "Reinforcement: " \o s}

\* area is a key of area_map
IsArea(area) == area \in {Chars("frontend"), Chars("backend"), Chars("cloud"), Chars("ml")}

RECURSIVE FirstOccurrences(_, _)
\* the distinct entries of l in the order of their first occurrence
FirstOccurrences(seen, l) ==
  IF l = <<>> THEN seen
  ELSE FirstOccurrences(IF Head(l) \in Entries(seen) THEN seen ELSE Append(seen, Head(l)),
                        Tail(l))

\* the focus tags of the request that are keys of area_map
KnownFocus == SelectSeq(Focus(req.preferences), IsArea)

\* C23: prioritized is a permutation of the distinct entries of the cleaned
\* missing list; every missing skill gets exactly one Foundations and exactly
\* one Project week; no week is produced for a skill outside missing, even
\* when an area of the focus names it; focus tags that are no keys of
\* area_map leave the ordering unchanged.
C23_PrioritizedIsPermutation ==
  PlanReturned =>
    LET cm == CleanMissing(req.missing)
        n == Len(resp.roadmap)
    IN  /\ NoRepeat(prioritized)
        /\ Entries(prioritized) = Entries(cm)
        /\ \A s \in Entries(cm) :
             /\ WeeksWith("Foundations: " \o s) = 1
             /\ WeeksWith("Project: Build with " \o s) = 1
        /\ \A i \in 1..(n - 2) :
             \E s \in Entries(cm) : resp.roadmap[i].milestone \in MilestonesOf(s)
        /\ KnownFocus = <<>> => prioritized = FirstOccurrences(<<>>, cm)
        /\ prioritized = Prioritized(cm, KnownFocus)

\* the focus holds a tag that is no key and the area frontend, which names
\* TailwindCSS; missing lacks TailwindCSS and lists React after Rust: React
\* is moved to the front and nothing is added
C23_Witness ==
  /\ PlanReturned
  /\ InList(Chars("devops"), Focus(req.preferences))
  /\ InList(Chars("frontend"), Focus(req.preferences))
  /\ CleanMissing(req.missing) = <<"Rust", "React">>
  /\ prioritized = <<"React", "Rust">>

\* only tags that are no keys: the order of missing is kept
C23_UnknownTagsWitness ==
  /\ PlanReturned
  /\ Focus(req.preferences) = <<Chars("sécurité"), Chars("devops")>>
  /\ prioritized = <<"AWS", "Docker">>

\* a tag that begins with U+0181, whose lower-case letter no string
\* constant holds, before the area cloud in upper case: AWS comes first
C23_NamedLetterWitness ==
  /\ PlanReturned
  /\ Focus(req.preferences) = << <<"U+0253">> \o Chars("ack"), Chars("cloud") >>
  /\ CleanMissing(req.missing) = <<"Rust", "AWS">>
  /\ prioritized = <<"AWS", "Rust">>

\* the fields of one learning resource
ResourceFields == {"title", "url", "type"}

\* C24: every week of every returned plan carries exactly 3 learning
\* resources, each a record with title, url and type; no per-skill week has
\* an empty learning_resources list, whatever missing list is accepted.
C24_ThreeResourcesPerWeek ==
  PlanReturned =>
    \A i \in 1..Len(resp.roadmap) :
      /\ Len(resp.roadmap[i].learning_resources) = 3
      /\ \A k \in 1..Len(resp.roadmap[i].learning_resources) :
           DOMAIN resp.roadmap[i].learning_resources[k] = ResourceFields

(***************************************************************************)
(* Properties of /gap.                                                     *)
(***************************************************************************)
\* the branches of the role test in the order of the claim
GapBranches == <<"frontend", "backend", "full stack", "ml", "data scientist", "generic">>

\* the lowered role satisfies the test of branch b
BranchMatches(b, role) ==
  CASE b = "frontend" -> Contains(role, Chars("frontend"))
    [] b = "backend" -> Contains(role, Chars("backend"))
    [] b = "full stack" ->
         (Contains(role, Chars("full")) /\ Contains(role, Chars("stack"))) \/ Contains(role, Chars("full-stack"))
    [] b = "ml" -> Contains(role, Chars("ml"))
    [] b = "data scientist" -> Contains(role, Chars("data")) /\ Contains(role, Chars("scientist"))
    [] b = "generic" -> TRUE

\* the desired list of branch b
BranchSkills(b) ==
  CASE b = "frontend" -> <<"React", "TailwindCSS">>
    [] b = "backend" -> <<"Node.js", "Express", "MongoDB", "Docker">>
    [] b = "full stack" ->
         <<"React", "TailwindCSS", "Node.js", "Express", "MongoDB", "Docker", "AWS">>
    [] b = "ml" -> <<"Python", "NLP", "Docker", "AWS">>
    [] b = "data scientist" -> <<"Python", "NLP", "AWS", "MongoDB">>
    [] b = "generic" -> <<"React", "Node.js", "MongoDB", "Docker", "AWS">>

\* the first branch, in the order of GapBranches, whose test the role passes
FirstBranch(role) ==
  GapBranches[CHOOSE i \in 1..Len(GapBranches) :
                /\ BranchMatches(GapBranches[i], role)
                /\ \A j \in 1..(i - 1) : ~BranchMatches(GapBranches[j], role)]

\* the position of s in the list l without repeats
IndexIn(s, l) == CHOOSE i \in 1..Len(l) : l[i] = s

GapResponded == pc = "gap_responded"

\* C25: missing holds exactly the skills of the desired list that the request
\* does not supply, in the desired list's order; it holds no supplied skill
\* and no skill outside the desired list, and is empty exactly when every
\* desired skill was supplied; the desired list is that of the first matching
\* branch in the order frontend, backend, full stack, ml, data scientist,
\* generic.
C25_GapMissing ==
  GapResponded =>
    LET want == BranchSkills(FirstBranch(Lower(req.target_role)))
        got == resp.missing
    IN  /\ \A i \in 1..Len(got) : ~InList(got[i], req.skills) /\ InList(got[i], want)
        /\ \A k \in 1..Len(want) : ~InList(want[k], req.skills) => InList(want[k], got)
        /\ \A i, j \in 1..Len(got) : i < j => IndexIn(got[i], want) < IndexIn(got[j], want)
        /\ (got = <<>>) <=> (\A k \in 1..Len(want) : InList(want[k], req.skills))

\* a role that passes the tests of two branches (backend and ml) with some
\* of the backend skills supplied: the backend list is the one used
C25_Witness ==
  /\ GapResponded
  /\ req.target_role = "backend ml"
  /\ req.skills = <<"React", "Node.js", "MongoDB", "Docker", "AWS">>
  /\ resp.missing = <<"Express">>

\* every desired skill is supplied: nothing is missing
C25_EmptyWitness ==
  /\ GapResponded
  /\ req.target_role = "Frontend Developer"
  /\ req.skills = <<"TailwindCSS", "React">>
  /\ resp.missing = <<>>

\* a supplied skill that differs in case does not count
C25_CaseWitness ==
  /\ GapResponded
  /\ req.target_role = "Frontend Developer"
  /\ req.skills = <<"react">>
  /\ resp.missing = <<"React", "TailwindCSS">>

\* the role begins with U+0181, whose lower-case letter no string constant
\* holds: the lowered role does not contain backend, and contains ml
C25_NamedLetterWitness ==
  /\ GapResponded
  /\ req.target_role = "Ɓackend ML Engineer"
  /\ GapRole(req.target_role) = <<"U+0253">> \o Chars("ackend ml engineer")
  /\ req.skills = <<"Node.js", "Express", "MongoDB", "Docker">>
  /\ resp.missing = <<"Python", "NLP", "AWS">>

(***************************************************************************)
(* Properties of /interview/score.                                         *)
(***************************************************************************)
ScoreResponded == pc = "score_responded"

\* no key of topics occurs in the lowered question
NoTopicInQuestion == \A i \in 1..Len(TopicKeys) : ~Contains(Lower(req.question), Chars(TopicKeys[i]))

\* the share of the keywords of the selected topics found in the answer
Coverage ==
  LET keywords == Keywords(SelectedKeys(Lower(req.question)))
  IN  BaseScore(Matches(keywords, Lower(req.answer)), Total(keywords))

\* C26: the score is an integer between 0 and 100, the length bonus adds at
\* most 20 to the coverage, the feedback is 'Good coverage' exactly when
\* score >= 70, 'Decent answer' exactly when 40 <= score < 70 and 'Try to
\* address' exactly when score < 40, and a question naming no topic is scored
\* against the 'api' keywords.
C26_ScoreAndFeedback ==
  ScoreResponded =>
    /\ resp.score \in 0..100
    /\ resp.score - Coverage \in 0..20
    /\ (resp.feedback = GoodFeedback) <=> (resp.score >= 70)
    /\ (resp.feedback = DecentFeedback) <=> (40 <= resp.score /\ resp.score < 70)
    /\ (resp.feedback = TryFeedback) <=> (resp.score < 40)
    /\ NoTopicInQuestion =>
         resp.score = interview_score_result([question |-> "api", answer |-> req.answer]).score

\* an answer of more than 1000 characters covering 2 of the 5 api keywords,
\* to a question naming no topic: 40 for the coverage and the full bonus
C26_Witness ==
  /\ ScoreResponded
  /\ req.question = "Tell me about yourself"
  /\ Len(Chars(req.answer)) > 1050
  /\ Coverage = 40
  /\ resp.score = 60
  /\ resp.feedback = DecentFeedback

\* the score is exactly 70
C26_GoodWitness == ScoreResponded /\ resp.score = 70 /\ resp.feedback = GoodFeedback

\* the score is exactly 40 without any bonus
C26_DecentWitness ==
  ScoreResponded /\ resp.score = 40 /\ Len(Chars(req.answer)) < 50 /\ resp.feedback = DecentFeedback

\* full coverage and a bonus: the score is cut at 100
C26_ClampWitness ==
  ScoreResponded /\ Coverage = 100 /\ Len(Chars(req.answer)) >= 50 /\ resp.score = 100

\* an answer of 45 characters, 25 of them above U+FFFF: no bonus is added
\* to the coverage of 60
C26_WideCharacterWitness ==
  /\ ScoreResponded
  /\ req.question = "Tell me about yourself"
  /\ req.answer = WideAnswer
  /\ Len(req.answer) = 70
  /\ Len(Chars(req.answer)) = 45
  /\ resp.score = 60

====
